---- MODULE Spec2Model ----
(***************************************************************************)
(* EyeCue: the session-scoped capture / analyse / speak pipeline.          *)
(*                                                                         *)
(*   services/huggingfaceApi  (src/unnamed/part_000)  request operations   *)
(*                            with retry, speakText / cancelSpeakText      *)
(*   screens Detect, Describe (src/unnamed/part_001)  capture pipelines    *)
(*   screen Color, CameraContext (src/EyeCue/contexts/CameraContext.tsx)   *)
(*                                                                         *)
(* JavaScript runs the handlers on one event loop: a handler runs without  *)
(* interruption up to its next await, so every action below is the code    *)
(* between two awaits of one async function.                               *)
(***************************************************************************)
EXTENDS Integers, Sequences, FiniteSets, TLC

(***************************************************************************)
(* Program constants                                                       *)
(***************************************************************************)
MAX_RETRIES == 6

FALLBACK_MESSAGE == "Error processing your request. Please try again."

(***************************************************************************)
(* Bounds of the model                                                     *)
(***************************************************************************)
\* largest value of sessionIdRef.current that the model follows: the screen
\* mounts with 1, and every focus change adds one
MaxSession == 4

\* number of speakText calls that may be in progress at the same time
MaxCallers == 2

\* number of cancelSpeakText calls from outside speakText that the model follows
MaxCancels == 2

\* number of jobs handed to one playback queue that the model follows
MaxJobs == 3

\* largest text length for which the timeout of speakText is computed
MaxLen == 1200

\* RECORDING_TIMEOUT / 1000: the countdown of a recording, in ticks of 1 s
RECORDING_SECONDS == 10

VARIABLES
    \* ---- one call of a request operation (part_000, lines 57-378)
    rqOp,        \* which operation: caption, detect, vqa, color, transcribe
    rqPc,        \* idle | info | post | sleep | done
    rqAttempt,   \* the loop variable attempt
    rqSignal,    \* the AbortController whose signal was passed, 0: undefined
    rqFile,      \* does the media file exist (FileSystem.getInfoAsync)
    rqOut,       \* how the call ended: returned value or thrown error
    rqNet,       \* number of requests that went to the network
    rqFails,     \* number of attempts that ended in a non-abort error
    rqPre,       \* was the signal already aborted when the call was made
    abortedCtl,  \* the AbortControllers that have been aborted
    \* ---- speakText / cancelSpeakText (part_000, lines 380-509)
    currentSound,  \* the module variable currentSound: a caller's clip, 0: null
    spPc,        \* per speakText call: where the call is
    spText,      \* per call: the text to speak
    spSound,     \* per call: its Audio.Sound: none | loaded | playing | unloaded
    spTimer,     \* per call: the playback timeout: off | armed | fired
    spResolved,  \* per call: hasResolved of the playback promise
    spOut,       \* per call: pending | resolved | rejected
    spDuring,    \* per call: the calls whose clip was playing when it was made
    scratch,     \* speech.mp3: the call that wrote it last, 0: no such file
    cancels,     \* number of cancelSpeakText calls made from outside speakText
    \* ---- one screen (Detect, Describe or Color), its focus effect and the
    \*      pipeline invocation in progress on it: a record, see ScreenInit
    scr,
    \* ---- the playback queues (App.tsx lines 112-158, CameraContext.tsx
    \*      lines 37-74): per queue
    qItems,      \* audioQueueRef.current: the jobs waiting, oldest first
    qPlaying,    \* isPlayingAudioRef.current
    qRunning,    \* the jobs that have been started and have not settled
    qCount,      \* number of jobs enqueued so far; jobs are numbered by arrival
    qStarted,    \* the jobs in the order in which they were started
    qThrew,      \* the jobs that ended by throwing
    \* ---- the timeout computation of speakText (part_000, lines 416-418)
    txtLen,      \* text.length
    budget       \* timeoutDuration in ms, 0: not computed yet

reqVars == <<rqOp, rqPc, rqAttempt, rqSignal, rqFile, rqOut, rqNet, rqFails,
             rqPre, abortedCtl>>

spkVars == <<currentSound, spPc, spText, spSound, spTimer, spResolved, spOut,
             spDuring, scratch, cancels>>

queVars == <<qItems, qPlaying, qRunning, qCount, qStarted, qThrew>>

tmoVars == <<txtLen, budget>>

vars == <<reqVars, spkVars, scr, queVars, tmoVars>>

\* what an action of one component leaves alone
notReq == <<spkVars, scr, queVars, tmoVars>>

notSpk == <<reqVars, scr, queVars, tmoVars>>

notScr == <<reqVars, spkVars, queVars, tmoVars>>

notReqScr == <<spkVars, queVars, tmoVars>>

notQue == <<reqVars, spkVars, scr, tmoVars>>

(***************************************************************************)
(* Values                                                                  *)
(***************************************************************************)
Ops == {"caption", "detect", "vqa", "color", "transcribe"}

ImageOps == {"caption", "detect", "vqa", "color"}

NoOut == [kind |-> "none", val |-> ""]

Return(v) == [kind |-> "return", val |-> v]

Throw(m) == [kind |-> "throw", val |-> m]

\* what one pass through the loop body decides besides returning or throwing
Sleep == [kind |-> "sleep", val |-> ""]

Continue == [kind |-> "next", val |-> ""]

\* where a call is while its request is in flight
InFlight == {"info", "post", "sleep"}

\* signal?.aborted
SignalAborted(sig, ab) == sig # 0 /\ sig \in ab

\* JavaScript truthiness of a string
Truthy(s) == s # ""

\* Array.prototype.join(", ")
RECURSIVE Join(_)
Join(labels) ==
    IF Len(labels) = 0 THEN ""
    ELSE IF Len(labels) = 1 THEN labels[1]
    ELSE labels[1] \o ", " \o Join(Tail(labels))

(***************************************************************************)
(* What the backend and the HTTP client can answer to one request.         *)
(* has: the JSON body carries the field the operation reads (caption,      *)
(* labels, answer, text).                                                  *)
(***************************************************************************)
RespText(t) == [ok |-> TRUE, has |-> TRUE, text |-> t, labels |-> <<>>,
                name |-> "", message |-> ""]

RespLabels(l) == [ok |-> TRUE, has |-> TRUE, text |-> "", labels |-> l,
                  name |-> "", message |-> ""]

RespNoField == [ok |-> TRUE, has |-> FALSE, text |-> "", labels |-> <<>>,
                name |-> "", message |-> ""]

RespError(n, m) == [ok |-> FALSE, has |-> FALSE, text |-> "", labels |-> <<>>,
                    name |-> n, message |-> m]

\* a failure that is not a cancellation
NetworkError == RespError("AxiosError", "Network Error")

FileMissing == RespError("Error", "File does not exist at URI")

\* the rejection of a request whose signal is aborted, as the code tests for it
AbortErrors == {RespError("AbortError", "Aborted"),
                RespError("Error", "Request aborted")}

Answers(op) ==
    CASE op = "caption" -> {RespText("a red mug on a table"), RespText(""), RespNoField}
      [] op = "detect" -> {RespLabels(<<"cup", "chair">>), RespLabels(<<>>), RespNoField}
      [] op = "vqa" -> {RespText("yes"), RespNoField}
      [] op = "color" -> {RespText("red"), RespNoField}
      [] op = "transcribe" -> {RespText("is the door open"), RespNoField}

(***************************************************************************)
(* The request operations, as pure steps                                   *)
(***************************************************************************)
\* the outcome of a cancelled call: lines 127-129, 174-176, 225-227, 272-274
\* throw; sendAudioForTranscription returns "" (lines 328-330)
\* (mutant: a cancelled call ends like an exhausted one)
CancelResultAsFallback(op) == Return(FALLBACK_MESSAGE)

CancelResult(op) ==
    IF op = "transcribe" THEN Return("") ELSE Throw("Request aborted")

\* sendImage's catch (lines 94-99): an abort is rethrown as 'Request aborted'
SendImageError(err) ==
    IF err.name = "AbortError" \/ err.message = "Request aborted"
    THEN RespError("Error", "Request aborted")
    ELSE err

\* the try block after the response has arrived
TryBody(op, resp) ==
    CASE op = "caption" ->
           IF resp.has /\ Truthy(resp.text) THEN Return(resp.text) ELSE Continue
      [] op = "detect" ->
           IF resp.has THEN Return(Join(resp.labels))
           ELSE Return("No objects detected.")
      [] op = "vqa" ->
           IF resp.has /\ Truthy(resp.text) THEN Return(resp.text) ELSE Continue
      [] op = "color" ->
           IF resp.has /\ Truthy(resp.text) THEN Return(resp.text)
           ELSE Return("Unknown")
      [] op = "transcribe" ->
           IF resp.has /\ Truthy(resp.text) THEN Return(resp.text) ELSE Return("")

\* (mutant: the catch block tests the message alone)
IsAbortErrorByMessage(op, err) == err.message = "Request aborted"

\* does the catch block take the error for a cancellation
IsAbortError(op, err) ==
    IF op = "transcribe"
    THEN err.name = "AbortError" \/ err.message = "Request aborted"
    ELSE err.message = "Request aborted"

\* (mutant: the last failure is rethrown instead of the fallback returned)
CatchBodyRethrow(op, err, attempt, aborted) ==
    IF IsAbortError(op, err) THEN CancelResult(op)
    ELSE IF attempt < MAX_RETRIES
         THEN (IF aborted THEN CancelResult(op) ELSE Sleep)
         ELSE Throw(err.message)

\* (mutant: the loop gives up one attempt early)
CatchBodyGiveUpEarly(op, err, attempt, aborted) ==
    IF IsAbortError(op, err) THEN CancelResult(op)
    ELSE IF attempt < MAX_RETRIES - 1
         THEN (IF aborted THEN CancelResult(op) ELSE Sleep)
         ELSE Return(FALLBACK_MESSAGE)

\* (mutant: the signal is not tested before the delay)
CatchBodySleepUnchecked(op, err, attempt, aborted) ==
    IF IsAbortError(op, err) THEN CancelResult(op)
    ELSE IF attempt < MAX_RETRIES THEN Sleep
         ELSE Return(FALLBACK_MESSAGE)

\* the catch block of the retry loop
CatchBody(op, err, attempt, aborted) ==
    IF IsAbortError(op, err) THEN CancelResult(op)
    ELSE IF attempt < MAX_RETRIES
         THEN (IF aborted THEN CancelResult(op) ELSE Sleep)
         ELSE Return(FALLBACK_MESSAGE)

\* the value returned when the loop ends without a return
LoopExit(op) == Return(FALLBACK_MESSAGE)

(***************************************************************************)
(* One call of a request operation                                         *)
(***************************************************************************)
ReqAborted == SignalAborted(rqSignal, abortedCtl)

\* the head of the loop for attempt a, up to the first await of the attempt;
\* n network requests have been made so far
ReqLoop(op, sig, a, n) ==
    /\ rqAttempt' = a
    /\ IF a > MAX_RETRIES
       THEN /\ rqPc' = "done"
            /\ rqOut' = LoopExit(op)
            /\ rqNet' = n
       ELSE IF SignalAborted(sig, abortedCtl)
       THEN /\ rqPc' = "done"
            /\ rqOut' = CancelResult(op)
            /\ rqNet' = n
       ELSE IF op = "transcribe"
       THEN /\ rqPc' = "post"
            /\ rqOut' = NoOut
            /\ rqNet' = n + 1
       ELSE /\ rqPc' = "info"
            /\ rqOut' = NoOut
            /\ rqNet' = n

\* the call itself: the check before the loop, then the first pass
ReqEnter(op, sig, file) ==
    /\ rqOp' = op
    /\ rqSignal' = sig
    /\ rqFile' = file
    /\ rqFails' = 0
    /\ rqPre' = (sig # 0 /\ sig \in abortedCtl)
    /\ IF SignalAborted(sig, abortedCtl)
       THEN /\ rqPc' = "done"
            /\ rqOut' = CancelResult(op)
            /\ rqAttempt' = 0
            /\ rqNet' = 0
       ELSE ReqLoop(op, sig, 1, 0)

\* what follows one pass of the loop body that ended with step result r
ReqApply(r) ==
    CASE r.kind \in {"return", "throw"} ->
           /\ rqPc' = "done"
           /\ rqOut' = r
           /\ UNCHANGED <<rqAttempt, rqNet>>
      [] r.kind = "sleep" ->
           /\ rqPc' = "sleep"
           /\ UNCHANGED <<rqAttempt, rqOut, rqNet>>
      [] r.kind = "next" ->
           ReqLoop(rqOp, rqSignal, rqAttempt + 1, rqNet)

\* sendImage after getInfoAsync (lines 68-92): a missing file throws, else the
\* request is handed to axios; axios sends nothing when the signal is aborted
ReqFileInfo ==
    /\ rqPc = "info"
    /\ IF ~rqFile
       THEN /\ ReqApply(CatchBody(rqOp, SendImageError(FileMissing), rqAttempt, ReqAborted))
            /\ rqFails' = rqFails + 1
       ELSE /\ rqPc' = "post"
            /\ rqNet' = IF ReqAborted THEN rqNet ELSE rqNet + 1
            /\ UNCHANGED <<rqAttempt, rqOut, rqFails>>
    /\ UNCHANGED <<rqOp, rqSignal, rqFile, rqPre, abortedCtl>>
    /\ UNCHANGED notReq

\* the request settles: with the abort error when the signal is aborted, else
\* with an answer of the backend or a network failure
ReqResponse ==
    /\ rqPc = "post"
    /\ \E resp \in (IF ReqAborted THEN AbortErrors
                    ELSE Answers(rqOp) \cup {NetworkError}) :
         IF resp.ok
         THEN /\ ReqApply(TryBody(rqOp, resp))
              /\ UNCHANGED rqFails
         ELSE LET err == IF rqOp = "transcribe" THEN resp ELSE SendImageError(resp)
              IN /\ ReqApply(CatchBody(rqOp, err, rqAttempt, ReqAborted))
                 /\ rqFails' = IF IsAbortError(rqOp, err) THEN rqFails ELSE rqFails + 1
    /\ UNCHANGED <<rqOp, rqSignal, rqFile, rqPre, abortedCtl>>
    /\ UNCHANGED notReq

\* sleep(RETRY_DELAY) is over: attempt++ and the head of the loop
ReqWake ==
    /\ rqPc = "sleep"
    /\ ReqLoop(rqOp, rqSignal, rqAttempt + 1, rqNet)
    /\ UNCHANGED <<rqOp, rqSignal, rqFile, rqFails, rqPre, abortedCtl>>
    /\ UNCHANGED notReq

(***************************************************************************)
(* speakText and cancelSpeakText                                           *)
(*                                                                         *)
(* Several speakText calls can be in progress at once: the tab navigator's *)
(* queue, the camera context's queue, the tutorial and the pipelines of    *)
(* the screens all call it from their own async functions.                 *)
(***************************************************************************)
Callers == 1 .. MaxCallers

SpeakTexts == {"A", "B"}

\* a clip that is loaded in the audio device, playing or not
ClipLoaded(c) == spSound[c] \in {"loaded", "playing"}

\* cancelSpeakText (lines 388-399): stop and unload currentSound, set it null.
\* Nothing in the module assigns a sound to currentSound.
CancelSpeakTextEffect ==
    /\ spSound' = IF currentSound # 0
                  THEN [spSound EXCEPT ![currentSound] = "unloaded"]
                  ELSE spSound
    /\ currentSound' = 0

\* the call ends in the catch block, which rethrows (lines 502-508)
SpeakReject(c) ==
    /\ spPc' = [spPc EXCEPT ![c] = "done"]
    /\ spOut' = [spOut EXCEPT ![c] = "rejected"]

\* speakText(text) up to its first await: await cancelSpeakText() (line 413)
SpeakCall(c) ==
    /\ spPc[c] = "idle"
    /\ \E t \in SpeakTexts : spText' = [spText EXCEPT ![c] = t]
    /\ spDuring' = [spDuring EXCEPT ![c] = {a \in Callers : spSound[a] = "playing"}]
    /\ CancelSpeakTextEffect
    /\ spPc' = [spPc EXCEPT ![c] = "cancel"]
    /\ UNCHANGED <<spTimer, spResolved, spOut, scratch, cancels>>
    /\ UNCHANGED notSpk

\* cancelSpeakText has returned: the 100 ms wait (line 414)
SpeakCancelled(c) ==
    /\ spPc[c] = "cancel"
    /\ spPc' = [spPc EXCEPT ![c] = "settle"]
    /\ UNCHANGED <<currentSound, spText, spSound, spTimer, spResolved, spOut,
                   spDuring, scratch, cancels>>
    /\ UNCHANGED notSpk

\* the wait is over: the synthesis request is sent (lines 416-432)
SpeakSettled(c) ==
    /\ spPc[c] = "settle"
    /\ spPc' = [spPc EXCEPT ![c] = "fetch"]
    /\ UNCHANGED <<currentSound, spText, spSound, spTimer, spResolved, spOut,
                   spDuring, scratch, cancels>>
    /\ UNCHANGED notSpk

\* (mutant: no timeout is set on the playback promise)
PlaybackTimerNotSet(c) == "off"

\* the timeout set on the playback promise when it is made (lines 484-495)
PlaybackTimer(c) == "armed"

\* the request timeout fires while fetch is pending: controller.abort(), and
\* fetch rejects (lines 421-432)
SpeakFetchTimeout(c) ==
    /\ spPc[c] = "fetch"
    /\ SpeakReject(c)
    /\ UNCHANGED <<currentSound, spText, spSound, spTimer, spResolved,
                   spDuring, scratch, cancels>>
    /\ UNCHANGED notSpk

\* the backend answers, or the request fails: a response that is ok, or a
\* network failure or an HTTP error status (lines 425-438)
SpeakFetched(c) ==
    /\ spPc[c] = "fetch"
    /\ \E ok \in BOOLEAN :
         IF ok THEN /\ spPc' = [spPc EXCEPT ![c] = "body"]
                    /\ UNCHANGED spOut
               ELSE SpeakReject(c)
    /\ UNCHANGED <<currentSound, spText, spSound, spTimer, spResolved,
                   spDuring, scratch, cancels>>
    /\ UNCHANGED notSpk

\* response.arrayBuffer(): audio data, or none (lines 441-450)
SpeakBody(c) ==
    /\ spPc[c] = "body"
    /\ \E ok \in BOOLEAN :
         IF ok THEN /\ spPc' = [spPc EXCEPT ![c] = "write"]
                    /\ UNCHANGED spOut
               ELSE SpeakReject(c)
    /\ UNCHANGED <<currentSound, spText, spSound, spTimer, spResolved,
                   spDuring, scratch, cancels>>
    /\ UNCHANGED notSpk

\* writeAsStringAsync has written speech.mp3, or failed (lines 447-453)
SpeakWritten(c) ==
    /\ spPc[c] = "write"
    /\ \E ok \in BOOLEAN :
         IF ok THEN /\ spPc' = [spPc EXCEPT ![c] = "info"]
                    /\ scratch' = c
                    /\ UNCHANGED spOut
               ELSE /\ SpeakReject(c)
                    /\ UNCHANGED scratch
    /\ UNCHANGED <<currentSound, spText, spSound, spTimer, spResolved,
                   spDuring, cancels>>
    /\ UNCHANGED notSpk

\* getInfoAsync: the file must exist (lines 453-462)
SpeakInfo(c) ==
    /\ spPc[c] = "info"
    /\ IF scratch # 0
       THEN /\ spPc' = [spPc EXCEPT ![c] = "create"]
            /\ UNCHANGED spOut
       ELSE SpeakReject(c)
    /\ UNCHANGED <<currentSound, spText, spSound, spTimer, spResolved,
                   spDuring, scratch, cancels>>
    /\ UNCHANGED notSpk

\* Audio.Sound.createAsync has loaded the file, or failed; on success the
\* playback promise is made, its timeout armed, and playAsync called
\* (lines 459-499)
SpeakCreated(c) ==
    /\ spPc[c] = "create"
    /\ \E ok \in {b \in BOOLEAN : b => scratch # 0} :
         IF ok THEN /\ spPc' = [spPc EXCEPT ![c] = "start"]
                    /\ spSound' = [spSound EXCEPT ![c] = "loaded"]
                    /\ spTimer' = [spTimer EXCEPT ![c] = PlaybackTimer(c)]
                    /\ UNCHANGED spOut
               ELSE /\ SpeakReject(c)
                    /\ UNCHANGED <<spSound, spTimer>>
    /\ UNCHANGED <<currentSound, spText, spResolved, spDuring, scratch, cancels>>
    /\ UNCHANGED notSpk

\* playAsync has started the clip, or failed (lines 499-500)
SpeakStarted(c) ==
    /\ spPc[c] = "start"
    /\ \E ok \in {b \in BOOLEAN : b => spSound[c] = "loaded"} :
         IF ok THEN /\ spPc' = [spPc EXCEPT ![c] = "playing"]
                    /\ spSound' = [spSound EXCEPT ![c] = "playing"]
                    /\ UNCHANGED spOut
               ELSE /\ SpeakReject(c)
                    /\ UNCHANGED spSound
    /\ UNCHANGED <<currentSound, spText, spTimer, spResolved, spDuring, scratch,
                   cancels>>
    /\ UNCHANGED notSpk

\* the status callback sees didJustFinish: unload, delete speech.mp3, resolve
\* (lines 470-481)
SpeakFinished(c) ==
    /\ spPc[c] = "playing"
    /\ spSound[c] = "playing"
    /\ ~spResolved[c]
    /\ spResolved' = [spResolved EXCEPT ![c] = TRUE]
    /\ spSound' = [spSound EXCEPT ![c] = "unloaded"]
    /\ spTimer' = [spTimer EXCEPT ![c] = "off"]
    /\ scratch' = 0
    /\ spPc' = [spPc EXCEPT ![c] = "done"]
    /\ spOut' = [spOut EXCEPT ![c] = "resolved"]
    /\ UNCHANGED <<currentSound, spText, spDuring, cancels>>
    /\ UNCHANGED notSpk

\* the playback timeout fires first: unload, delete speech.mp3, reject; the
\* catch block then calls cancelSpeakText and rethrows (lines 484-495, 502-508)
SpeakTimeout(c) ==
    /\ spTimer[c] = "armed"
    /\ ~spResolved[c]
    /\ spResolved' = [spResolved EXCEPT ![c] = TRUE]
    /\ spTimer' = [spTimer EXCEPT ![c] = "fired"]
    /\ scratch' = 0
    /\ currentSound' = 0
    /\ spSound' = [a \in Callers |->
                     IF a = c \/ (spPc[c] = "playing" /\ a = currentSound)
                     THEN "unloaded" ELSE spSound[a]]
    /\ IF spPc[c] = "playing"
       THEN SpeakReject(c)
       ELSE UNCHANGED <<spPc, spOut>>
    /\ UNCHANGED <<spText, spDuring, cancels>>
    /\ UNCHANGED notSpk

\* cancelSpeakText called by a focus handler, a gesture or the tab navigator
CancelSpeakText ==
    /\ cancels < MaxCancels
    /\ cancels' = cancels + 1
    /\ CancelSpeakTextEffect
    /\ UNCHANGED <<spPc, spText, spTimer, spResolved, spOut, spDuring, scratch>>
    /\ UNCHANGED notSpk

\* Math.max / Math.min on integers
Max(a, b) == IF a >= b THEN a ELSE b

Min(a, b) == IF a <= b THEN a ELSE b

\* estimatedDuration in ms for a text of n characters (line 417):
\* Math.max(text.length * 0.1 + 5, 30) * 1000.  The seconds are counted in
\* tenths, so that text.length * 0.1 + 5 is n + 50 and 30 is 300.
EstimatedDuration(n) == Max(n + 50, 300) * 100

\* (mutant: the estimate is used without the cap)
TimeoutDurationNoCap(n) == EstimatedDuration(n)

\* timeoutDuration in ms (line 418): Math.min(estimatedDuration, 120000)
TimeoutDuration(n) == Min(EstimatedDuration(n), 120000)

\* speakText computes the timeout for its text
ComputeTimeout ==
    /\ budget = 0
    /\ budget' = TimeoutDuration(txtLen)
    /\ UNCHANGED txtLen
    /\ UNCHANGED <<reqVars, spkVars, scr, queVars>>

\* no timeout computation
TmoIdle == txtLen = 0 /\ budget = 0

\* no speakText call
SpkIdle ==
    /\ currentSound = 0
    /\ spPc = [c \in Callers |-> "idle"]
    /\ spText = [c \in Callers |-> ""]
    /\ spSound = [c \in Callers |-> "none"]
    /\ spTimer = [c \in Callers |-> "off"]
    /\ spResolved = [c \in Callers |-> FALSE]
    /\ spOut = [c \in Callers |-> "pending"]
    /\ spDuring = [c \in Callers |-> {}]
    /\ scratch = 0
    /\ cancels = 0

(***************************************************************************)
(* The playback queues.  The tab navigator and the camera context each     *)
(* keep an audioQueueRef and an isPlayingAudioRef of their own, with the   *)
(* same playNextInQueue / queueAudio; the jobs are async functions that    *)
(* await speakText.  (Detect and Describe declare the same pair, but never *)
(* call queueAudio.)                                                       *)
(***************************************************************************)
Queues == {"tab", "ctx"}

Jobs == 1 .. MaxJobs

QueIdle ==
    /\ qItems = [q \in Queues |-> <<>>]
    /\ qPlaying = [q \in Queues |-> FALSE]
    /\ qRunning = [q \in Queues |-> {}]
    /\ qCount = [q \in Queues |-> 0]
    /\ qStarted = [q \in Queues |-> <<>>]
    /\ qThrew = [q \in Queues |-> {}]

\* (mutant: playNextInQueue does not look at isPlayingAudioRef)
QueueBlockedIgnoringFlag(playing, items) == Len(items) = 0

\* the early return of playNextInQueue (App.tsx line 134)
QueueBlocked(playing, items) == playing \/ Len(items) = 0

\* (mutant: the job is awaited outside any try, so its error ends playNextInQueue)
JobErrorEscapes(ok) == ok

\* does playNextInQueue go on after the job: try / catch (App.tsx lines 139-145)
JobHandled(ok) == TRUE

\* playNextInQueue (App.tsx lines 133-138) on queue q, given the queue and
\* the flag as they are when it is called; the job leaving is `out`
PlayNextInQueue(q, items, playing, out) ==
    IF QueueBlocked(playing, items)
    THEN /\ qItems' = [qItems EXCEPT ![q] = items]
         /\ qPlaying' = [qPlaying EXCEPT ![q] = playing]
         /\ qRunning' = [qRunning EXCEPT ![q] = @ \ out]
         /\ UNCHANGED qStarted
    ELSE /\ qItems' = [qItems EXCEPT ![q] = Tail(items)]
         /\ qPlaying' = [qPlaying EXCEPT ![q] = TRUE]
         /\ qRunning' = [qRunning EXCEPT ![q] = (@ \ out) \cup {Head(items)}]
         /\ qStarted' = [qStarted EXCEPT ![q] = Append(@, Head(items))]

\* queueAudio(job) (App.tsx lines 155-158)
QueueAudio(q) ==
    /\ qCount[q] < MaxJobs
    /\ qCount' = [qCount EXCEPT ![q] = @ + 1]
    /\ PlayNextInQueue(q, Append(qItems[q], qCount[q] + 1), qPlaying[q], {})
    /\ UNCHANGED qThrew
    /\ UNCHANGED notQue

\* the job j that playNextInQueue awaits returns or throws (App.tsx lines
\* 139-149): the flag is cleared and playNextInQueue calls itself
JobSettled(q, j) ==
    /\ j \in qRunning[q]
    /\ \E ok \in BOOLEAN :
         /\ qThrew' = [qThrew EXCEPT ![q] = IF ok THEN @ ELSE @ \cup {j}]
         /\ IF JobHandled(ok)
            THEN PlayNextInQueue(q, qItems[q], FALSE, {j})
            ELSE /\ qRunning' = [qRunning EXCEPT ![q] = @ \ {j}]
                 /\ UNCHANGED <<qItems, qPlaying, qStarted>>
    /\ UNCHANGED qCount
    /\ UNCHANGED notQue

(***************************************************************************)
(* A screen: its React state and refs, its focus effect, and one invocation *)
(* of its capture pipeline.                                                 *)
(*                                                                          *)
(* A pipeline awaits speakText; here only the call (what is said, and under *)
(* which session) and its outcome, resolved or rejected, matter.            *)
(*                                                                          *)
(* The model follows one invocation of the pipeline at a time, and takes    *)
(* the next focus change once handleFocusChange of the previous one has     *)
(* finished.  An await on a ref that is null yields no turn of the event    *)
(* loop to timers, navigation or the network, so it is part of the step.    *)
(***************************************************************************)
\* the screen after it has mounted focused: the focus effect has run once
\* (part_001 lines 134-146, 701-715)
ScreenInit ==
    [focused |-> TRUE,           \* useIsFocused()
     showCamera |-> FALSE,       \* showCamera: cameraRef.current is set
     showTimer |-> TRUE,         \* the 300 ms timer that shows the camera
     sessionId |-> 1,            \* sessionIdRef.current
     abortRef |-> 1,             \* abortControllerRef.current, 0: null
     isCapturing |-> FALSE,
     isDetecting |-> FALSE,
     isCaptioning |-> FALSE,
     isWhisperProcessing |-> FALSE,
     shown |-> "",               \* detectionResults / caption / detectedColor
     capturedPhoto |-> FALSE,    \* capturedPhoto is not null
     resizedRef |-> FALSE,       \* lastResizedUriRef.current is not null
     files |-> {},               \* the temp files that exist
     cueRef |-> FALSE,           \* loadingSoundRef.current is not null
     cue |-> "none",             \* the processing sound: none|loaded|playing|unloaded
     cuePlayTimer |-> FALSE,     \* the 300 ms timer that starts the cue
     cooling |-> FALSE,          \* Date.now() - lastCaptureTimeRef.current < CAPTURE_COOLDOWN
     recent |-> FALSE,           \* less than CAPTURE_COOLDOWN has passed since an
                                 \* invocation last passed the capture guard
     capTimers |-> 0,            \* pending timers that will setIsCapturing(false)
     fPc |-> "idle",             \* handleFocusChange: idle | stop
     pPc |-> "idle",             \* takePhoto: where the invocation is
     pSession |-> 0,             \* its currentSession
     pFocused |-> TRUE,          \* isFocused as its closure captured it
     pResp |-> "",               \* the value the request returned
     pRejected |-> FALSE,        \* the invocation ended by throwing
     lastSaid |-> "",            \* the text of the last speakText call
     staleWrite |-> FALSE,       \* a result or error text was shown by an invocation
                                 \* whose session was no longer the current one
     staleAudio |-> FALSE,       \* speakText was called or a sound started by such
     \* -- the voice question of the Describe screen
     recording |-> FALSE,        \* the state `recording` is not null
     statusMessage |-> "",
     vqaResponse |-> "",
     recognizedQuestion |-> "",
     forceGestureEnd |-> FALSE,
     gesture |-> "none",         \* the long press: none | active (recognised, not ended)
     timeLeft |-> 0,             \* recordingTimeLeft
     intervalOn |-> FALSE,       \* countdownIntervalRef.current is a running interval
     tenTimer |-> FALSE,         \* recordingTimeoutRef.current is a pending timeout
     hPc |-> "idle",             \* handleLongPressStart: where the invocation is
     hSession |-> 0,             \* its currentSession
     hRecording |-> FALSE,       \* `recording` as its closure captured it
     vPc |-> <<"idle", "idle">>, \* forceStopRecording: where each invocation is
     vFocused |-> <<TRUE, TRUE>>,    \* isFocused as each closure captured it
     vPhoto |-> <<FALSE, FALSE>>,    \* capturedPhoto as each closure captured it
     rqOwner |-> 0,              \* the invocation whose request is in progress
     recState |-> "none",        \* the Audio.Recording: none | on | stopped
     recStops |-> 0,             \* stopAndUnloadAsync calls made on it
     transcribes |-> 0,          \* transcription requests made for it
     tenPassed |-> FALSE,        \* RECORDING_TIMEOUT has passed since it started
     shownAfterCancel |-> FALSE, \* a text was shown because a request was cancelled
     atBlur |-> FALSE,           \* the request now in progress was in flight when
                                 \* the screen last lost the focus
     facing |-> "back",          \* facing of the camera context
     facingTimer |-> FALSE,      \* the 150 ms timer of a camera switch is pending
     \* -- the tutorial and the tabs
     tutorial |-> FALSE,         \* isTutorialActive of the camera context
     tutRef |-> FALSE,           \* tutorialInProgressRef.current
     tPc |-> "idle",             \* startTutorial: where the invocation is
     tab |-> "Detect",           \* the focused tab of the navigator
     navEvent |-> FALSE,         \* a state event of the navigator is due
     initialMount |-> FALSE,     \* isInitialMountRef.current of the navigator
     ignored |-> FALSE]          \* a tab press or a swipe left or right was made
                                 \* while the tutorial was active

\* sessionIdRef.current !== currentSession
Stale(s) == s.sessionId # s.pSession

\* speakText(t) is called
Say(s, t) == [s EXCEPT !.lastSaid = t, !.staleAudio = @ \/ Stale(s)]

\* a result or an error text is put on the screen
ShowResult(s, t) == [s EXCEPT !.shown = t, !.staleWrite = @ \/ Stale(s)]

\* stopSound(loadingSoundRef) / stopLoadingSound has completed
\* (part_001 lines 110-124, 674-688)
StopCue(s) ==
    [s EXCEPT !.cueRef = FALSE,
              !.cue = IF s.cueRef /\ @ \in {"loaded", "playing"} THEN "unloaded" ELSE @]

\* the temp files after takePictureAsync has written a new photo: "photo" is
\* the file whose uri the state capturedPhoto holds or is about to hold,
\* "photo0" a photo of an earlier invocation whose uri no state holds any more
\* (setCapturedPhoto replaces the uri, part_001 lines 245, 817)
NewPhoto(s) ==
    s.files \cup {"photo"}
            \cup (IF "photo" \in s.files THEN {"photo0"} ELSE {})

\* all busy flags of the screen are false
NotBusy(s) ==
    ~s.isCapturing /\ ~s.isDetecting /\ ~s.isCaptioning /\ ~s.isWhisperProcessing

(***************************************************************************)
(* Timers of a screen                                                      *)
(***************************************************************************)
\* setTimeout(() => setIsCapturing(false), 1000) fires
CapTimer ==
    /\ scr.capTimers > 0
    /\ scr' = [scr EXCEPT !.capTimers = @ - 1, !.isCapturing = FALSE]
    /\ UNCHANGED notScr

\* CAPTURE_COOLDOWN has passed since lastCaptureTimeRef.current
Cooldown ==
    /\ scr.cooling \/ scr.recent
    /\ scr' = [scr EXCEPT !.cooling = FALSE, !.recent = FALSE]
    /\ UNCHANGED notScr

\* the 300 ms timer of the focus effect shows the camera
ShowCamera ==
    /\ scr.showTimer
    /\ scr' = [scr EXCEPT !.showTimer = FALSE, !.showCamera = TRUE]
    /\ UNCHANGED notScr

\* abortControllerRef.current?.abort()
AbortCurrent(s) ==
    abortedCtl' = IF s.abortRef # 0 THEN abortedCtl \cup {s.abortRef} ELSE abortedCtl

(***************************************************************************)
(* The focus effect of the Detect screen (part_001 lines 127-194)          *)
(***************************************************************************)
\* handleFocusChange after its first await
DetFocusBody(s) ==
    IF s.focused
    THEN [s EXCEPT !.sessionId = @ + 1,
                   !.abortRef = s.sessionId + 1,
                   !.capturedPhoto = FALSE, !.shown = "",
                   !.isDetecting = FALSE, !.isCapturing = FALSE,
                   !.cooling = FALSE,
                   !.showTimer = TRUE,
                   !.fPc = "idle"]
    ELSE [s EXCEPT !.sessionId = @ + 1,
                   !.abortRef = 0,
                   !.showCamera = FALSE,
                   !.isDetecting = FALSE, !.isCapturing = FALSE,
                   !.shown = "",
                   !.cooling = FALSE,
                   !.files = (IF s.capturedPhoto THEN @ \ {"photo"} ELSE @)
                             \ (IF s.resizedRef THEN {"resized"} ELSE {}),
                   !.fPc = "idle"]

\* navigation gives or takes the focus: the effect's cleanup runs, then
\* handleFocusChange up to its first await that waits for the audio device
DetFocusChange ==
    /\ scr.fPc = "idle"
    /\ scr.sessionId < MaxSession
    /\ LET s == [scr EXCEPT !.focused = ~@, !.showTimer = FALSE,
                             !.atBlur = IF scr.focused THEN rqPc \in InFlight
                                        ELSE @]
       IN IF s.cueRef
          THEN /\ scr' = [s EXCEPT !.fPc = "stop"]
               /\ UNCHANGED abortedCtl
          ELSE /\ scr' = DetFocusBody(s)
               /\ AbortCurrent(s)
    /\ UNCHANGED <<rqOp, rqPc, rqAttempt, rqSignal, rqFile, rqOut, rqNet, rqFails, rqPre>>
    /\ UNCHANGED notReqScr

\* the loading sound is stopped: the rest of handleFocusChange
DetFocusStopped ==
    /\ scr.fPc = "stop"
    /\ scr' = DetFocusBody(StopCue(scr))
    /\ AbortCurrent(scr)
    /\ UNCHANGED <<rqOp, rqPc, rqAttempt, rqSignal, rqFile, rqOut, rqNet, rqFails, rqPre>>
    /\ UNCHANGED notReqScr

(***************************************************************************)
(* Detect.takePhoto (part_001 lines 221-306)                               *)
(***************************************************************************)
\* finally (lines 298-305)
DetFinally(s) ==
    IF Stale(s) THEN [s EXCEPT !.pPc = "done", !.pRejected = FALSE]
    ELSE [s EXCEPT !.pPc = "done", !.isDetecting = FALSE, !.capTimers = @ + 1]

\* catch, after stopLoadingSound (lines 296-297)
DetCatchShow(s) ==
    [Say(ShowResult(s, "Please Try Again"), "Please Try Again") EXCEPT !.pPc = "speakE"]

\* catch (lines 292-295)
DetCatch(s) ==
    IF Stale(s) THEN DetFinally(s)
    ELSE IF s.cueRef THEN [s EXCEPT !.pPc = "stopE"]
    ELSE DetCatchShow(s)

\* after stopLoadingSound: the result is shown, then 500 ms pass (lines 280-284)
DetShow(s) ==
    [ShowResult(s, IF Truthy(s.pResp) THEN s.pResp ELSE "No objects found")
       EXCEPT !.pPc = "wait500"]

\* the double tap reaches takePhoto and passes its guards (lines 222-232,
\* 311-349)
DetTakePhoto ==
    /\ scr.focused
    /\ scr.pPc \in {"idle", "done"}
    /\ ~scr.cooling
    /\ scr.showCamera
    /\ ~scr.isDetecting /\ ~scr.isCapturing
    /\ ~(scr.cueRef /\ scr.cue = "playing")
    /\ scr' = [scr EXCEPT !.pSession = scr.sessionId,
                          !.pFocused = scr.focused,
                          !.cooling = TRUE,
                          !.recent = TRUE,
                          !.isCapturing = TRUE,
                          !.pResp = "",
                          !.pRejected = FALSE,
                          !.pPc = "photo"]
    /\ UNCHANGED notScr

\* takePictureAsync settles (lines 235-250)
DetPhoto ==
    /\ scr.pPc = "photo"
    /\ \E ok \in BOOLEAN :
         scr' = IF ~ok THEN DetCatch(scr)
                ELSE LET s == [scr EXCEPT !.files = NewPhoto(scr)]
                     IN IF Stale(s) THEN DetFinally(s)
                        ELSE [Say(s, "Processing...")
                                EXCEPT !.capturedPhoto = TRUE,
                                       !.isDetecting = TRUE,
                                       !.shown = "Processing...",
                                       !.pPc = "speak1"]
    /\ UNCHANGED notScr

\* speakText("Processing...") settles (lines 250-251)
DetSpoke1 ==
    /\ scr.pPc = "speak1"
    /\ \E ok \in BOOLEAN :
         scr' = IF ok THEN [scr EXCEPT !.pPc = "wait300"] ELSE DetCatch(scr)
    /\ UNCHANGED notScr

\* the 300 ms have passed: Audio.Sound.createAsync is called (lines 251-254)
DetWaited300 ==
    /\ scr.pPc = "wait300"
    /\ scr' = [scr EXCEPT !.pPc = "cuecreate"]
    /\ UNCHANGED notScr

\* createAsync settles (lines 254-258)
DetCueCreated ==
    /\ scr.pPc = "cuecreate"
    /\ \E ok \in BOOLEAN :
         scr' = IF ok THEN [scr EXCEPT !.cueRef = TRUE, !.cue = "loaded",
                                       !.pPc = "cueloop"]
                ELSE DetCatch(scr)
    /\ UNCHANGED notScr

\* setIsLoopingAsync settles and sound.playAsync() is called (lines 258-259)
DetCueLooped ==
    /\ scr.pPc = "cueloop"
    /\ \E ok \in {b \in BOOLEAN : b => scr.cue = "loaded"} :
         scr' = IF ok THEN [scr EXCEPT !.cue = "playing",
                                       !.staleAudio = @ \/ Stale(scr),
                                       !.pPc = "cueplay"]
                ELSE DetCatch(scr)
    /\ UNCHANGED notScr

\* playAsync settles and the photo is handed to manipulateAsync (lines
\* 259-266); when it rejects the cue has not started
DetCuePlayed ==
    /\ scr.pPc = "cueplay"
    /\ \E ok \in {b \in BOOLEAN : b => scr.cue = "playing"} :
         scr' = IF ok THEN [scr EXCEPT !.pPc = "resize"]
                ELSE DetCatch([scr EXCEPT !.cue = IF @ = "playing" THEN "loaded"
                                                 ELSE @])
    /\ UNCHANGED notScr

\* manipulateAsync settles; the detection request is made with the signal of
\* the controller that is current now (lines 262-274)
DetResized ==
    /\ scr.pPc = "resize"
    /\ \E ok \in BOOLEAN :
         IF ok
         THEN /\ scr' = [scr EXCEPT !.files = @ \cup {"resized"},
                                    !.resizedRef = TRUE,
                                    !.pPc = "request"]
              /\ ReqEnter("detect", scr.abortRef, TRUE)
              /\ UNCHANGED abortedCtl
         ELSE /\ scr' = DetCatch(scr)
              /\ UNCHANGED reqVars
    /\ UNCHANGED notReqScr

\* sendImageForObjectDetection has settled (lines 271-279)
DetAfterRequest ==
    /\ scr.pPc = "request"
    /\ rqPc = "done"
    /\ scr' = IF rqOut.kind = "throw" THEN DetCatch([scr EXCEPT !.atBlur = FALSE])
              ELSE LET s == [scr EXCEPT !.pResp = rqOut.val, !.atBlur = FALSE]
                   IN IF Stale(s) THEN DetFinally(s)
                      ELSE IF s.cueRef THEN [s EXCEPT !.pPc = "stop1"]
                      ELSE DetShow(s)
    /\ rqPc' = "idle"
    /\ UNCHANGED <<rqOp, rqAttempt, rqSignal, rqFile, rqOut, rqNet, rqFails, rqPre,
                   abortedCtl>>
    /\ UNCHANGED notReqScr

\* stopLoadingSound of line 279 has completed
DetStopped1 ==
    /\ scr.pPc = "stop1"
    /\ scr' = DetShow(StopCue(scr))
    /\ UNCHANGED notScr

\* the 500 ms have passed: the result is spoken, or the resized file is
\* deleted straight away (lines 284-290)
DetWaited500 ==
    /\ scr.pPc = "wait500"
    /\ scr' = IF scr.pFocused
              THEN [Say(scr, scr.shown) EXCEPT !.pPc = "speak2"]
              ELSE [scr EXCEPT !.pPc = "delete"]
    /\ UNCHANGED notScr

\* speakText(output) settles (lines 286-290)
DetSpoke2 ==
    /\ scr.pPc = "speak2"
    /\ \E ok \in BOOLEAN :
         scr' = IF ok THEN [scr EXCEPT !.pPc = "delete"] ELSE DetCatch(scr)
    /\ UNCHANGED notScr

\* deleteAsync(resized.uri) settles (lines 290-291)
DetDeleted ==
    /\ scr.pPc = "delete"
    /\ \E ok \in BOOLEAN :
         scr' = IF ok THEN DetFinally([scr EXCEPT !.files = @ \ {"resized"},
                                                  !.resizedRef = FALSE])
                ELSE DetCatch(scr)
    /\ UNCHANGED notScr

\* stopLoadingSound of line 295 has completed
DetStoppedE ==
    /\ scr.pPc = "stopE"
    /\ scr' = DetCatchShow(StopCue(scr))
    /\ UNCHANGED notScr

\* speakText("Please Try Again") settles (lines 297-305)
DetSpokeE ==
    /\ scr.pPc = "speakE"
    /\ \E ok \in BOOLEAN :
         scr' = DetFinally([scr EXCEPT !.pRejected = ~ok])
    /\ UNCHANGED notScr

(***************************************************************************)
(* The camera switch of the Detect screen (part_001 lines 208-215,         *)
(* 352-358; CameraContext.tsx lines 109-121).  The model follows one       *)
(* switch at a time, after the initial setup of the context                *)
(* (hasFlippedOnce), and as many as the context's queue is followed for.   *)
(***************************************************************************)
\* swipe down: toggleCameraFacing unless isDetecting
DetSwipeDown ==
    /\ scr.focused
    /\ ~scr.facingTimer
    /\ qCount["ctx"] < MaxJobs
    /\ scr' = IF scr.isDetecting THEN scr
              ELSE [scr EXCEPT !.showCamera = FALSE, !.facingTimer = TRUE]
    /\ UNCHANGED notScr

\* the 150 ms have passed: setFacing, which queues the announcement, and the
\* camera is shown again
DetFacingTimer ==
    /\ scr.facingTimer
    /\ scr' = [scr EXCEPT !.facingTimer = FALSE,
                          !.facing = IF @ = "back" THEN "front" ELSE "back",
                          !.showCamera = TRUE]
    /\ qCount' = [qCount EXCEPT !["ctx"] = @ + 1]
    /\ PlayNextInQueue("ctx", Append(qItems["ctx"], qCount["ctx"] + 1),
                       qPlaying["ctx"], {})
    /\ UNCHANGED qThrew
    /\ UNCHANGED <<reqVars, spkVars, tmoVars>>

(***************************************************************************)
(* The focus effect of the Describe screen (part_001 lines 691-780)        *)
(***************************************************************************)
\* handleFocusChange after its first await
DesFocusBody(s) ==
    IF s.focused
    THEN [s EXCEPT !.sessionId = @ + 1,
                   !.abortRef = s.sessionId + 1,
                   !.capturedPhoto = FALSE, !.shown = "",
                   !.isCaptioning = FALSE, !.isDetecting = FALSE,
                   !.isCapturing = FALSE, !.isWhisperProcessing = FALSE,
                   !.cooling = FALSE,
                   !.recognizedQuestion = "", !.vqaResponse = "",
                   !.statusMessage = "",
                   !.showCamera = FALSE, !.showTimer = TRUE,
                   !.fPc = "idle"]
    ELSE [s EXCEPT !.sessionId = @ + 1,
                   !.abortRef = 0,
                   !.recState = IF s.recording THEN "stopped" ELSE @,
                   !.recStops = IF s.recording THEN @ + 1 ELSE @,
                   !.showCamera = FALSE,
                   !.isWhisperProcessing = FALSE, !.isDetecting = FALSE,
                   !.isCapturing = FALSE, !.isCaptioning = FALSE,
                   !.vqaResponse = "", !.recognizedQuestion = "",
                   !.statusMessage = "", !.recording = FALSE,
                   !.shown = "", !.capturedPhoto = FALSE,
                   !.cooling = FALSE,
                   !.files = IF s.capturedPhoto THEN @ \ {"photo"} ELSE @,
                   !.fPc = "idle"]

\* navigation gives or takes the focus: the effect's cleanup runs, then
\* handleFocusChange up to its first await that waits for the audio device
DesFocusChange ==
    /\ scr.fPc = "idle"
    /\ scr.sessionId < MaxSession
    /\ LET s == [scr EXCEPT !.focused = ~@, !.showTimer = FALSE,
                             !.atBlur = IF scr.focused THEN rqPc \in InFlight
                                        ELSE @]
       IN IF s.cueRef
          THEN /\ scr' = [s EXCEPT !.fPc = "stop"]
               /\ UNCHANGED abortedCtl
          ELSE /\ scr' = DesFocusBody(s)
               /\ AbortCurrent(s)
    /\ UNCHANGED <<rqOp, rqPc, rqAttempt, rqSignal, rqFile, rqOut, rqNet, rqFails, rqPre>>
    /\ UNCHANGED notReqScr

\* the sounds are stopped: the rest of handleFocusChange
DesFocusStopped ==
    /\ scr.fPc = "stop"
    /\ scr' = DesFocusBody(StopCue(scr))
    /\ AbortCurrent(scr)
    /\ UNCHANGED <<rqOp, rqPc, rqAttempt, rqSignal, rqFile, rqOut, rqNet, rqFails, rqPre>>
    /\ UNCHANGED notReqScr

(***************************************************************************)
(* Describe.takePhoto (part_001 lines 794-869)                             *)
(***************************************************************************)
\* finally (lines 861-868)
DesFinally(s) ==
    [s EXCEPT !.pPc = "done",
              !.capTimers = IF Stale(s) THEN @ ELSE @ + 1]

\* catch, after stopSound (lines 857-859)
DesCatchShow(s) ==
    [Say(ShowResult(s, "Please Try Again"), "Please Try Again") EXCEPT !.pPc = "speakE"]

\* catch (lines 854-856)
DesCatch(s) ==
    IF Stale(s) THEN DesFinally(s)
    ELSE IF s.cueRef THEN [s EXCEPT !.pPc = "stopE"]
    ELSE DesCatchShow(s)

\* after stopSound: the caption is shown and spoken (lines 846-853)
DesShow(s) ==
    LET s1 == ShowResult(s, IF Truthy(s.pResp) THEN s.pResp ELSE "No description found.")
    IN IF Truthy(s.pResp) /\ ~Stale(s) /\ s.pFocused
       THEN [Say(s1, s.pResp) EXCEPT !.pPc = "speak2"]
       ELSE DesFinally([s1 EXCEPT !.isCaptioning = FALSE])

\* the guards of the double tap and of takePhoto (lines 795-800, 1147-1193)
DesGuard(s) ==
    /\ s.focused
    /\ ~s.cooling
    /\ s.showCamera
    /\ ~s.isCaptioning /\ ~s.isCapturing /\ ~s.isWhisperProcessing
    /\ ~s.isDetecting
    /\ ~(s.cueRef /\ s.cue = "playing")

\* the double tap reaches takePhoto and passes its guards (lines 795-808,
\* 1147-1195)
DesTakePhoto ==
    /\ scr.pPc \in {"idle", "done"}
    /\ DesGuard(scr)
    /\ scr' = [scr EXCEPT !.pSession = scr.sessionId,
                          !.pFocused = scr.focused,
                          !.cooling = TRUE,
                          !.recent = TRUE,
                          !.isCapturing = TRUE,
                          !.pResp = "",
                          !.pRejected = FALSE,
                          !.pPc = "photo"]
    /\ UNCHANGED notScr

\* takePictureAsync settles (lines 808-824)
DesPhoto ==
    /\ scr.pPc = "photo"
    /\ \E ok \in BOOLEAN :
         scr' = IF ~ok THEN DesCatch(scr)
                ELSE LET s == [scr EXCEPT !.files = NewPhoto(scr)]
                     IN IF Stale(s) THEN DesFinally(s)
                        ELSE [Say(s, "Processing...")
                                EXCEPT !.capturedPhoto = TRUE,
                                       !.shown = "Processing...",
                                       !.isCaptioning = TRUE,
                                       !.pPc = "speak1"]
    /\ UNCHANGED notScr

\* speakText("Processing...") settles (lines 824-829)
DesSpoke1 ==
    /\ scr.pPc = "speak1"
    /\ \E ok \in BOOLEAN :
         scr' = IF ok THEN [scr EXCEPT !.pPc = "cuecreate"] ELSE DesCatch(scr)
    /\ UNCHANGED notScr

\* Audio.Sound.createAsync(processing.mp3) settles (lines 827-831)
DesCueCreated ==
    /\ scr.pPc = "cuecreate"
    /\ \E ok \in BOOLEAN :
         scr' = IF ok THEN [scr EXCEPT !.cueRef = TRUE, !.cue = "loaded",
                                       !.pPc = "cueloop"]
                ELSE DesCatch(scr)
    /\ UNCHANGED notScr

\* setIsLoopingAsync settles; the cue is set to start in 300 ms and the
\* caption request is made with the signal of the controller that is current
\* now (lines 831-840)
DesCueLooped ==
    /\ scr.pPc = "cueloop"
    /\ \E ok \in {b \in BOOLEAN : b => scr.cue = "loaded"} :
         IF ok
         THEN /\ scr' = [scr EXCEPT !.cuePlayTimer = TRUE, !.pPc = "request"]
              /\ ReqEnter("caption", scr.abortRef, "photo" \in scr.files)
              /\ UNCHANGED abortedCtl
         ELSE /\ scr' = DesCatch(scr)
              /\ UNCHANGED reqVars
    /\ UNCHANGED notReqScr

\* the 300 ms timer fires: sound.playAsync() (lines 832-834)
DesCuePlay ==
    /\ scr.cuePlayTimer
    /\ scr' = IF scr.cue = "loaded"
              THEN [scr EXCEPT !.cuePlayTimer = FALSE, !.cue = "playing",
                               !.staleAudio = @ \/ Stale(scr)]
              ELSE [scr EXCEPT !.cuePlayTimer = FALSE]
    /\ UNCHANGED notScr

\* sendImageForCaptioning has settled (lines 837-845)
DesAfterRequest ==
    /\ scr.pPc = "request"
    /\ rqPc = "done"
    /\ scr' = IF rqOut.kind = "throw" THEN DesCatch([scr EXCEPT !.atBlur = FALSE])
              ELSE LET s == [scr EXCEPT !.pResp = rqOut.val, !.atBlur = FALSE]
                   IN IF Stale(s) THEN DesFinally(s)
                      ELSE IF s.cueRef THEN [s EXCEPT !.pPc = "stop1"]
                      ELSE DesShow(s)
    /\ rqPc' = "idle"
    /\ UNCHANGED <<rqOp, rqAttempt, rqSignal, rqFile, rqOut, rqNet, rqFails, rqPre,
                   abortedCtl>>
    /\ UNCHANGED notReqScr

\* stopSound(loadingSoundRef) of line 845 has completed
DesStopped1 ==
    /\ scr.pPc = "stop1"
    /\ scr' = DesShow(StopCue(scr))
    /\ UNCHANGED notScr

\* speakText(captionResp) settles (lines 850-853)
DesSpoke2 ==
    /\ scr.pPc = "speak2"
    /\ \E ok \in BOOLEAN :
         scr' = IF ok THEN DesFinally([scr EXCEPT !.isCaptioning = FALSE])
                ELSE DesCatch(scr)
    /\ UNCHANGED notScr

\* stopSound(loadingSoundRef) of line 856 has completed
DesStoppedE ==
    /\ scr.pPc = "stopE"
    /\ scr' = DesCatchShow(StopCue(scr))
    /\ UNCHANGED notScr

\* speakText("Please Try Again") settles (lines 859-868): when it rejects the
\* error leaves the catch block, and only finally runs
DesSpokeE ==
    /\ scr.pPc = "speakE"
    /\ \E ok \in BOOLEAN :
         scr' = IF ok THEN DesFinally([scr EXCEPT !.isCaptioning = FALSE])
                ELSE DesFinally([scr EXCEPT !.pRejected = TRUE])
    /\ UNCHANGED notScr

(***************************************************************************)
(* The voice question of the Describe screen: the long press, the          *)
(* recording and its countdown (part_001 lines 1035-1141, 1228-1244)       *)
(***************************************************************************)
\* the screen after a photo has been captured and its caption shown and
\* spoken, the pipeline's timers fired (lines 794-869 run to the end)
VoiceInit ==
    [ScreenInit EXCEPT !.showCamera = TRUE, !.showTimer = FALSE,
                       !.tab = "Describe",
                       !.capturedPhoto = TRUE, !.files = {"photo"},
                       !.shown = "a red mug on a table",
                       !.lastSaid = "a red mug on a table",
                       !.cue = "unloaded",
                       !.pPc = "done", !.pSession = 1,
                       !.pResp = "a red mug on a table"]

\* .enabled(...) of the long press (lines 1230-1231)
LongPressEnabled(s) ==
    /\ ~s.isCaptioning /\ ~s.isDetecting /\ ~s.isWhisperProcessing
    /\ ~s.isCapturing
    /\ s.vqaResponse # "Processing..."
    /\ s.capturedPhoto
    /\ ~s.forceGestureEnd

\* the catch block of handleLongPressStart (lines 1128-1140)
LongPressCatch(s) ==
    [s EXCEPT !.statusMessage = "", !.timeLeft = 0,
              !.tenTimer = FALSE, !.intervalOn = FALSE, !.hPc = "done"]

\* the long press is recognised: onStart, and handleLongPressStart up to
\* requestPermissionsAsync (lines 1232-1236, 1035-1052); the model follows
\* the long presses up to the first recording
VoiceLongPress ==
    /\ scr.focused
    /\ ~scr.tutorial
    /\ scr.gesture = "none"
    /\ LongPressEnabled(scr)
    /\ scr.hPc \in {"idle", "done"}
    /\ scr.recState = "none"
    /\ LET s == [scr EXCEPT !.gesture = "active", !.forceGestureEnd = FALSE]
       IN scr' = IF \/ ~s.capturedPhoto \/ s.isCaptioning \/ s.isDetecting
                    \/ s.isWhisperProcessing \/ s.isCapturing
                    \/ s.vqaResponse = "Processing..."
                    \/ s.recording \/ s.statusMessage = "Listening..."
                 THEN s
                 ELSE [s EXCEPT !.hPc = "perm", !.hSession = s.sessionId,
                                !.hRecording = s.recording]
    /\ UNCHANGED notScr

\* requestPermissionsAsync settles; when granted the listening cue is
\* created and speakText("Listening...") called (lines 1052-1062)
VoicePermitted ==
    /\ scr.hPc = "perm"
    /\ \E granted \in BOOLEAN :
         scr' = IF granted
                THEN [scr EXCEPT !.lastSaid = "Listening...",
                               !.statusMessage = "Listening...",
                               !.timeLeft = RECORDING_SECONDS,
                               !.hPc = "listen"]
                ELSE [scr EXCEPT !.hPc = "done"]
    /\ UNCHANGED notScr

\* the cue and the speech have settled; the cue is played, 1500 ms pass, the
\* audio mode is set and Audio.Recording.createAsync called (lines 1059-1097)
VoiceListening ==
    /\ scr.hPc = "listen"
    /\ \E ok \in BOOLEAN :
         scr' = IF ok THEN [scr EXCEPT !.hPc = "create"] ELSE LongPressCatch(scr)
    /\ UNCHANGED notScr

\* Audio.Recording.createAsync settles: the recording runs; unless the
\* session has changed it is stored, and the countdown and the timeout are
\* started (lines 1074-1126)
VoiceCreated ==
    /\ scr.hPc = "create"
    /\ \E ok \in BOOLEAN :
         scr' = IF ~ok THEN LongPressCatch(scr)
                ELSE LET s == [scr EXCEPT !.recState = "on", !.recStops = 0,
                                          !.transcribes = 0, !.tenPassed = FALSE,
                                          !.hPc = "done"]
                     IN IF s.sessionId # s.hSession THEN s
                        ELSE [s EXCEPT !.recording = TRUE,
                                       !.intervalOn = TRUE, !.tenTimer = TRUE]
    /\ UNCHANGED notScr

\* the countdown interval fires (lines 1103-1118)
VoiceTick ==
    /\ scr.intervalOn
    /\ scr' = IF scr.timeLeft - 1 <= 0
              THEN [scr EXCEPT !.timeLeft = 0, !.intervalOn = FALSE,
                               !.forceGestureEnd = TRUE]
              ELSE [scr EXCEPT !.timeLeft = @ - 1]
    /\ UNCHANGED notScr

\* RECORDING_TIMEOUT has passed since the recording was started (the
\* countdown, when there is one, has fired its last tick just before); the
\* timeout, when it is pending, fires (lines 1121-1126)
VoiceTenSeconds ==
    /\ scr.recState = "on"
    /\ ~scr.tenPassed
    /\ ~scr.intervalOn
    /\ scr' = [scr EXCEPT !.tenPassed = TRUE,
                          !.tenTimer = FALSE,
                          !.forceGestureEnd =
                              IF scr.tenTimer /\ scr.sessionId = scr.hSession
                                 /\ scr.hRecording
                              THEN TRUE ELSE @]
    /\ UNCHANGED notScr

(***************************************************************************)
(* forceStopRecording (part_001 lines 931-1029).  Two invocations can be   *)
(* in progress; they take turns at the backend.                            *)
(***************************************************************************)
Slots == {1, 2}

\* finally, up to its first await (lines 1019-1028)
VoiceFinally(s, i) ==
    IF s.cueRef THEN [s EXCEPT !.vPc[i] = "fin"]
    ELSE [s EXCEPT !.isDetecting = FALSE, !.isWhisperProcessing = FALSE,
                   !.vPc[i] = "done"]

\* catch (lines 1011-1018), then finally
VoiceCatch(s, i) ==
    VoiceFinally([s EXCEPT !.recording = FALSE, !.statusMessage = "",
                           !.isDetecting = FALSE, !.isWhisperProcessing = FALSE,
                           !.vqaResponse = "Recognition failed."], i)

\* onFinalize of the long press (lines 1237-1244): the finger is lifted, the
\* gesture is cancelled, or a touch ended before the long press was
\* recognised; forceStopRecording runs up to stopAndUnloadAsync (931-948)
OnFinalize ==
    /\ scr.gesture = "active"
       \/ (scr.focused /\ ~scr.tutorial /\ LongPressEnabled(scr))
    /\ LET s == [scr EXCEPT !.gesture = "none", !.forceGestureEnd = FALSE]
       IN IF ~scr.recording THEN scr' = s
          ELSE \E i \in Slots :
                 /\ scr.vPc[i] \in {"idle", "done"}
                 /\ \A k \in Slots : k < i => scr.vPc[k] \notin {"idle", "done"}
                 /\ scr' = [s EXCEPT !.intervalOn = FALSE, !.tenTimer = FALSE,
                                     !.timeLeft = 0, !.statusMessage = "",
                                     !.recStops = @ + 1,
                                     !.vFocused[i] = scr.focused,
                                     !.vPhoto[i] = scr.capturedPhoto,
                                     !.vPc[i] = "stop"]
    /\ UNCHANGED notScr

\* stopAndUnloadAsync settles; the end-of-recording sound is played and
\* speakText("Processing...") called (lines 948-974)
VoiceStopped(i) ==
    /\ scr.vPc[i] = "stop"
    /\ \E ok \in BOOLEAN :
         scr' = IF ok
                THEN [scr EXCEPT !.recState = "stopped", !.recording = FALSE,
                                 !.isDetecting = TRUE,
                                 !.isWhisperProcessing = TRUE,
                                 !.vqaResponse = "Processing...",
                                 !.lastSaid = "Processing...",
                                 !.vPc[i] = "say"]
                ELSE VoiceCatch(scr, i)
    /\ UNCHANGED notScr

\* speakText("Processing...") settles; 1000 ms pass and the processing sound
\* is created (lines 974-980)
VoiceSaid(i) ==
    /\ scr.vPc[i] = "say"
    /\ \E ok \in BOOLEAN :
         scr' = IF ok THEN [scr EXCEPT !.vPc[i] = "cue"] ELSE VoiceCatch(scr, i)
    /\ UNCHANGED notScr

\* the processing sound plays and the transcription is requested with the
\* signal of the controller that is current now (lines 978-989)
VoiceCue(i) ==
    /\ scr.vPc[i] = "cue"
    /\ scr.rqOwner = 0
    /\ \E ok \in BOOLEAN :
         IF ok
         THEN /\ scr' = [scr EXCEPT !.cueRef = TRUE, !.cue = "playing",
                                    !.transcribes = @ + 1,
                                    !.rqOwner = i,
                                    !.vPc[i] = "transcribe"]
              /\ ReqEnter("transcribe", scr.abortRef, TRUE)
              /\ UNCHANGED abortedCtl
         ELSE /\ scr' = VoiceCatch(scr, i)
              /\ UNCHANGED reqVars
    /\ UNCHANGED notReqScr

\* sendAudioForTranscription has returned (lines 986-1010)
VoiceTranscribed(i) ==
    /\ scr.vPc[i] = "transcribe"
    /\ scr.rqOwner = i
    /\ rqPc = "done"
    /\ IF Truthy(rqOut.val) /\ scr.vPhoto[i]
       THEN /\ scr' = [scr EXCEPT !.recognizedQuestion = rqOut.val,
                                  !.atBlur = FALSE,
                                  !.vPc[i] = "vqa"]
            /\ ReqEnter("vqa", scr.abortRef, "photo" \in scr.files)
            /\ UNCHANGED abortedCtl
       ELSE /\ scr' = VoiceFinally(
                        [scr EXCEPT !.rqOwner = 0,
                                    !.atBlur = FALSE,
                                    !.recognizedQuestion =
                                        IF Truthy(rqOut.val) THEN rqOut.val ELSE @,
                                    !.vqaResponse =
                                        IF Truthy(rqOut.val) THEN @
                                        ELSE "No speech recognized"], i)
            /\ rqPc' = "idle"
            /\ UNCHANGED <<rqOp, rqAttempt, rqSignal, rqFile, rqOut, rqNet, rqFails,
                           rqPre, abortedCtl>>
    /\ UNCHANGED notReqScr

\* sendImageForVQA has settled (lines 995-1018)
VoiceAnswered(i) ==
    /\ scr.vPc[i] = "vqa"
    /\ scr.rqOwner = i
    /\ rqPc = "done"
    /\ LET s == [scr EXCEPT !.rqOwner = 0, !.atBlur = FALSE]
       IN scr' = IF rqOut.kind = "throw"
                 THEN VoiceCatch([s EXCEPT !.shownAfterCancel =
                                      @ \/ rqOut = Throw("Request aborted")], i)
                 ELSE LET s1 == [s EXCEPT !.vqaResponse =
                                     IF Truthy(rqOut.val) THEN rqOut.val
                                     ELSE "No answer found."]
                      IN IF Truthy(rqOut.val) /\ s.vFocused[i]
                         THEN [s1 EXCEPT !.lastSaid = rqOut.val,
                                         !.vPc[i] = "answer"]
                         ELSE VoiceFinally(s1, i)
    /\ rqPc' = "idle"
    /\ UNCHANGED <<rqOp, rqAttempt, rqSignal, rqFile, rqOut, rqNet, rqFails, rqPre,
                   abortedCtl>>
    /\ UNCHANGED notReqScr

\* speakText(vqaAnswer) settles (lines 1005-1018)
VoiceSpoke(i) ==
    /\ scr.vPc[i] = "answer"
    /\ \E ok \in BOOLEAN :
         scr' = IF ok THEN VoiceFinally(scr, i) ELSE VoiceCatch(scr, i)
    /\ UNCHANGED notScr

\* stopAsync of the processing sound has settled (lines 1021-1028): when the
\* ref has been cleared meanwhile the next line throws and the flags stay
VoiceFin(i) ==
    /\ scr.vPc[i] = "fin"
    /\ scr' = IF scr.cueRef
              THEN [StopCue(scr) EXCEPT !.isDetecting = FALSE,
                                        !.isWhisperProcessing = FALSE,
                                        !.vPc[i] = "done"]
              ELSE [scr EXCEPT !.vPc[i] = "done"]
    /\ UNCHANGED notScr

(***************************************************************************)
(* The Color screen (CameraContext.tsx lines 193-601): the focus effect     *)
(* with its cleanup, and takePhoto, which the capture interval calls        *)
(***************************************************************************)
\* handleFocusChange after its first await (lines 261-305)
ColFocusBody(s) ==
    IF s.focused
    THEN [s EXCEPT !.sessionId = @ + 1,
                   !.abortRef = s.sessionId + 1,
                   !.capturedPhoto = FALSE, !.shown = "",
                   !.isDetecting = FALSE, !.isCapturing = FALSE,
                   !.cooling = FALSE,
                   !.showCamera = FALSE,
                   !.showTimer = TRUE,
                   !.fPc = "idle"]
    ELSE [s EXCEPT !.sessionId = @ + 1,
                   !.abortRef = 0,
                   !.showCamera = FALSE,
                   !.isDetecting = FALSE, !.isCapturing = FALSE,
                   !.capturedPhoto = FALSE, !.shown = "",
                   !.cooling = FALSE,
                   !.files = IF s.capturedPhoto THEN @ \ {"photo"} ELSE @,
                   !.fPc = "idle"]

\* navigation gives or takes the focus: the cleanup of the effect aborts the
\* controller and forgets it (lines 310-319), then handleFocusChange runs up
\* to its first await that waits for the audio device (lines 256-259)
ColFocusChange ==
    /\ scr.fPc = "idle"
    /\ scr.sessionId < MaxSession
    /\ AbortCurrent(scr)
    /\ LET s == [scr EXCEPT !.focused = ~@, !.showTimer = FALSE, !.abortRef = 0]
       IN scr' = IF s.cueRef THEN [s EXCEPT !.fPc = "stop"] ELSE ColFocusBody(s)
    /\ UNCHANGED <<rqOp, rqPc, rqAttempt, rqSignal, rqFile, rqOut, rqNet, rqFails, rqPre>>
    /\ UNCHANGED notReqScr

\* the loading sound is stopped: the rest of handleFocusChange
ColFocusStopped ==
    /\ scr.fPc = "stop"
    /\ scr' = ColFocusBody(StopCue(scr))
    /\ AbortCurrent(scr)
    /\ UNCHANGED <<rqOp, rqPc, rqAttempt, rqSignal, rqFile, rqOut, rqNet, rqFails, rqPre>>
    /\ UNCHANGED notReqScr

\* finally (lines 461-474); loadingSoundRef is null by now
ColFinally(s) ==
    IF Stale(s) THEN [s EXCEPT !.pPc = "done", !.isCapturing = FALSE]
    ELSE [s EXCEPT !.pPc = "done", !.capTimers = @ + 1]

\* catch, after stopLoadingSound (lines 444-458)
ColCatchShow(s) ==
    IF Stale(s) THEN ColFinally(s)
    ELSE [Say(ShowResult(s, "Please Try Again"), "Please Try Again")
            EXCEPT !.pPc = "speakE"]

\* catch (lines 439-442)
ColCatch(s) ==
    IF s.cueRef THEN [s EXCEPT !.pPc = "stopE"] ELSE ColCatchShow(s)

\* after stopLoadingSound of line 419: the colour is shown and spoken (lines
\* 421-438)
ColShow(s) ==
    IF Stale(s) THEN ColFinally(s)
    ELSE LET t == ShowResult(s, IF Truthy(s.pResp) THEN s.pResp
                                ELSE "No color detected.")
         IN IF Truthy(s.pResp) THEN [Say(t, s.pResp) EXCEPT !.pPc = "speak2"]
            ELSE ColFinally([t EXCEPT !.isDetecting = FALSE])

\* the capture interval calls takePhoto, which passes its guards (lines
\* 334-337, 352-362)
ColTakePhoto ==
    /\ scr.focused
    /\ ~scr.tutorial
    /\ scr.pPc \in {"idle", "done"}
    /\ ~scr.cooling
    /\ scr.showCamera
    /\ ~scr.isDetecting /\ ~scr.isCapturing
    /\ scr' = [scr EXCEPT !.pSession = scr.sessionId,
                          !.pFocused = scr.focused,
                          !.cooling = TRUE,
                          !.recent = TRUE,
                          !.isCapturing = TRUE,
                          !.pResp = "",
                          !.pRejected = FALSE,
                          !.pPc = "photo"]
    /\ UNCHANGED notScr

\* takePictureAsync settles (lines 365-387)
ColPhoto ==
    /\ scr.pPc = "photo"
    /\ \E ok \in BOOLEAN :
         scr' = IF ~ok THEN ColCatch(scr)
                ELSE LET s == [scr EXCEPT !.files = NewPhoto(scr)]
                     IN IF Stale(s) THEN ColFinally(s)
                        ELSE [Say(s, "Processing...")
                                EXCEPT !.capturedPhoto = TRUE,
                                       !.isDetecting = TRUE,
                                       !.shown = "",
                                       !.pPc = "speak1"]
    /\ UNCHANGED notScr

\* speakText("Processing...") settles either way and createAsync is called
\* (lines 386-397)
ColSpoke1 ==
    /\ scr.pPc = "speak1"
    /\ scr' = [scr EXCEPT !.pPc = "cuecreate"]
    /\ UNCHANGED notScr

\* the request is made with the signal of the controller that is current now
\* (lines 412-415)
ColRequest(s) ==
    /\ scr' = [s EXCEPT !.pPc = "request"]
    /\ ReqEnter("color", s.abortRef, TRUE)
    /\ UNCHANGED abortedCtl

\* createAsync settles (lines 395-408): an invocation of another session
\* unloads the sound and returns; a rejection is caught and the request made
ColCueCreated ==
    /\ scr.pPc = "cuecreate"
    /\ \E ok \in BOOLEAN :
         IF ok /\ Stale(scr)
         THEN scr' = ColFinally(scr) /\ UNCHANGED reqVars
         ELSE IF ok
         THEN /\ scr' = [scr EXCEPT !.cueRef = TRUE, !.cue = "loaded",
                                    !.pPc = "cueloop"]
              /\ UNCHANGED reqVars
         ELSE ColRequest(scr)
    /\ UNCHANGED notReqScr

\* setIsLoopingAsync settles and sound.playAsync() is called (lines 403-404);
\* a rejection is caught, the sound stopped (lines 405-408)
ColCueLooped ==
    /\ scr.pPc = "cueloop"
    /\ \E ok \in {b \in BOOLEAN : b => scr.cue = "loaded"} :
         scr' = IF ok THEN [scr EXCEPT !.cue = "playing",
                                       !.staleAudio = @ \/ Stale(scr),
                                       !.pPc = "cueplay"]
                ELSE [scr EXCEPT !.pPc = "stopC"]
    /\ UNCHANGED notScr

\* playAsync settles (lines 404-415): the request is made, after
\* stopLoadingSound when playAsync rejected
ColCuePlayed ==
    /\ scr.pPc = "cueplay"
    /\ \E ok \in {b \in BOOLEAN : b => scr.cue = "playing"} :
         IF ok THEN ColRequest(scr)
         ELSE /\ scr' = [scr EXCEPT !.cue = IF @ = "playing" THEN "loaded" ELSE @,
                                    !.pPc = "stopC"]
              /\ UNCHANGED reqVars
    /\ UNCHANGED notReqScr

\* stopLoadingSound of line 407 has completed
ColStoppedC ==
    /\ scr.pPc = "stopC"
    /\ ColRequest(StopCue(scr))
    /\ UNCHANGED notReqScr

\* sendImageForColorVQA has settled (lines 412-419, 439-442)
ColAfterRequest ==
    /\ scr.pPc = "request"
    /\ rqPc = "done"
    /\ scr' = IF rqOut.kind = "throw" THEN ColCatch(scr)
              ELSE LET s == [scr EXCEPT !.pResp = rqOut.val]
                   IN IF s.cueRef THEN [s EXCEPT !.pPc = "stop1"] ELSE ColShow(s)
    /\ rqPc' = "idle"
    /\ UNCHANGED <<rqOp, rqAttempt, rqSignal, rqFile, rqOut, rqNet, rqFails, rqPre,
                   abortedCtl>>
    /\ UNCHANGED notReqScr

\* stopLoadingSound of line 419 has completed
ColStopped1 ==
    /\ scr.pPc = "stop1"
    /\ scr' = ColShow(StopCue(scr))
    /\ UNCHANGED notScr

\* speakText(colorResp) settles either way (lines 429-438)
ColSpoke2 ==
    /\ scr.pPc = "speak2"
    /\ scr' = ColFinally([scr EXCEPT !.isDetecting = FALSE])
    /\ UNCHANGED notScr

\* stopLoadingSound of line 442 has completed
ColStoppedE ==
    /\ scr.pPc = "stopE"
    /\ scr' = ColCatchShow(StopCue(scr))
    /\ UNCHANGED notScr

\* speakText("Please Try Again") settles either way (lines 451-460)
ColSpokeE ==
    /\ scr.pPc = "speakE"
    /\ scr' = ColFinally([scr EXCEPT !.isDetecting = FALSE])
    /\ UNCHANGED notScr

(***************************************************************************)
(* The tutorial (CameraContext.tsx lines 80-103), the swipe up that starts *)
(* it and the gesture left while it is active (part_001 lines 368-395,     *)
(* 1220-1270; CameraContext.tsx lines 499-516)                             *)
(***************************************************************************)
Tabs == {"Detect", "Describe", "Color"}

\* the guard of swipeUp on the focused screen (part_001 lines 371, 1223;
\* CameraContext.tsx line 502)
SwipeUpBlocked(s) ==
    IF s.tab = "Describe"
    THEN \/ s.tutorial \/ s.isCaptioning \/ s.isDetecting \/ s.recording
         \/ s.isWhisperProcessing \/ s.isCapturing
    ELSE s.tutorial \/ s.isDetecting \/ s.isCapturing

\* swipe up in normal mode: swipeUp, and startTutorial up to its first wait
\* of 200 ms (CameraContext.tsx lines 80-89); cancelSpeakText finds
\* currentSound null
SwipeUp ==
    /\ scr.focused
    /\ ~scr.tutorial
    /\ scr.gesture = "none"
    /\ scr' = IF SwipeUpBlocked(scr) \/ scr.tutRef THEN scr
              ELSE [scr EXCEPT !.tutRef = TRUE, !.tutorial = TRUE,
                               !.tPc = "wait1"]
    /\ UNCHANGED notScr

\* a wait of 200 ms is over: the next speakText call is made (lines 89-96)
TutWaited ==
    /\ scr.tPc \in {"wait1", "wait2", "wait3"}
    /\ scr' = CASE scr.tPc = "wait1" ->
                     [scr EXCEPT !.tPc = "on", !.lastSaid = "Tutorial ON"]
                [] scr.tPc = "wait2" ->
                     [scr EXCEPT !.tPc = "text", !.lastSaid = "Welcome to the EyeCue application!"]
                [] scr.tPc = "wait3" ->
                     [scr EXCEPT !.tPc = "off", !.lastSaid = "Tutorial OFF"]
    /\ UNCHANGED notScr

\* startTutorial after a speakText call has settled (lines 92-102): the next
\* wait, or, after the last call or a rejection, the finally block
TutAfter(s, ok) ==
    IF ok /\ s.tPc = "on" THEN [s EXCEPT !.tPc = "wait2"]
    ELSE IF ok /\ s.tPc = "text" THEN [s EXCEPT !.tPc = "wait3"]
    ELSE [s EXCEPT !.tPc = "idle", !.tutRef = FALSE, !.tutorial = FALSE]

\* the speakText call of the tutorial settles
TutSpoke ==
    /\ scr.tPc \in {"on", "text", "off"}
    /\ \E ok \in BOOLEAN : scr' = TutAfter(scr, ok)
    /\ UNCHANGED notScr

\* the speakText calls of one run of the tutorial, as calls of the speech
\* synthesizer: the run is followed as far as there are callers
TutCall(pc) ==
    CASE pc = "on" -> 1 [] pc = "text" -> 2 [] pc = "off" -> 3 [] OTHER -> 0

\* speakText of the tutorial up to its first await (part_000 line 413)
TutSpeakText(c) ==
    /\ c = TutCall(scr.tPc)
    /\ SpeakCall(c)

\* that call has ended, resolved or rejected
TutClipSettled(c) ==
    /\ c = TutCall(scr.tPc)
    /\ spPc[c] = "done"
    /\ scr' = TutAfter(scr, spOut[c] = "resolved")
    /\ UNCHANGED notScr

\* swipe up while the tutorial is active, the exit gesture: cancelSpeakText
\* (part_001 lines 379-385, 1250-1256; CameraContext.tsx lines 510-516)
TutExit ==
    /\ scr.focused
    /\ scr.tutorial
    /\ CancelSpeakText

(***************************************************************************)
(* Navigation between the tabs: the tab bar (App.tsx lines 61-76), the     *)
(* swipes left and right of the screens (part_001 lines 360-366,           *)
(* 1198-1205; CameraContext.tsx lines 478-484) and the state listener of   *)
(* the navigator (App.tsx lines 172-195).  One state event at a time.      *)
(***************************************************************************)
\* (mutant: the tab bar does not look at the tutorial)
TabPressNeverBlocked(s) == FALSE

\* onPress returns at once, and the button is disabled (App.tsx lines 63-65,
\* 86)
TabPressBlocked(s) == s.tutorial

\* navigation.navigate(r): another tab is focused, and a state event follows
Navigate(s, r) ==
    IF r = s.tab THEN s ELSE [s EXCEPT !.tab = r, !.navEvent = TRUE]

\* a tab of the tab bar is pressed
TabPress(r) ==
    /\ ~scr.navEvent
    /\ scr' = IF TabPressBlocked(scr) THEN [scr EXCEPT !.ignored = TRUE]
              ELSE Navigate(scr, r)
    /\ UNCHANGED notScr

\* where the swipes of a screen lead
SwipeTarget(tab, dir) ==
    CASE tab = "Detect" -> IF dir = "left" THEN "Describe" ELSE "Color"
      [] tab = "Describe" -> IF dir = "left" THEN "Color" ELSE "Detect"
      [] tab = "Color" -> IF dir = "left" THEN "Detect" ELSE "Describe"

\* swipe left or right: in normal mode the gesture navigates, in tutorial
\* mode no gesture of the screen answers to it
SwipeNav(dir) ==
    /\ ~scr.navEvent
    /\ scr' = IF scr.tutorial THEN [scr EXCEPT !.ignored = TRUE]
              ELSE Navigate(scr, SwipeTarget(scr.tab, dir))
    /\ UNCHANGED notScr

\* the state listener of the navigator runs: unless the tutorial is active
\* or this is the first event, cancelSpeakText and the announcement of the
\* mode is queued
NavState ==
    /\ scr.navEvent
    /\ qCount["tab"] < MaxJobs
    /\ IF scr.tutorial \/ scr.initialMount
       THEN /\ scr' = [scr EXCEPT !.navEvent = FALSE,
                                  !.initialMount = @ /\ scr.tutorial]
            /\ UNCHANGED queVars
       ELSE /\ scr' = [scr EXCEPT !.navEvent = FALSE]
            /\ qCount' = [qCount EXCEPT !["tab"] = @ + 1]
            /\ PlayNextInQueue("tab", Append(qItems["tab"], qCount["tab"] + 1),
                               qPlaying["tab"], {})
            /\ UNCHANGED qThrew
    /\ UNCHANGED <<reqVars, spkVars, tmoVars>>

(***************************************************************************)
(* Specification SpecReq: one call of one request operation, the owner of  *)
(* the signal aborting it at any moment                                    *)
(***************************************************************************)
ReqCall ==
    /\ rqPc = "idle"
    /\ ReqEnter(rqOp, rqSignal, rqFile)
    /\ UNCHANGED abortedCtl
    /\ UNCHANGED notReq

ReqAbort ==
    /\ rqPc # "done"
    /\ rqSignal # 0
    /\ rqSignal \notin abortedCtl
    /\ abortedCtl' = abortedCtl \cup {rqSignal}
    /\ UNCHANGED <<rqOp, rqPc, rqAttempt, rqSignal, rqFile, rqOut, rqNet, rqFails, rqPre>>
    /\ UNCHANGED notReq

\* no request call
ReqIdle ==
    /\ rqOp = "caption"
    /\ rqPc = "idle"
    /\ rqAttempt = 0
    /\ rqSignal = 0
    /\ rqFile = TRUE
    /\ rqOut = NoOut
    /\ rqNet = 0
    /\ rqFails = 0
    /\ rqPre = FALSE
    /\ abortedCtl = {}

InitReq ==
    /\ SpkIdle
    /\ QueIdle
    /\ TmoIdle
    /\ scr = ScreenInit
    /\ rqOp \in Ops
    /\ rqPc = "idle"
    /\ rqAttempt = 0
    /\ rqSignal \in {0, 1}
    /\ rqFile \in BOOLEAN
    /\ rqOut = NoOut
    /\ rqNet = 0
    /\ rqFails = 0
    /\ rqPre = FALSE
    /\ abortedCtl = {}

NextReq == ReqCall \/ ReqFileInfo \/ ReqResponse \/ ReqWake \/ ReqAbort

SpecReq == InitReq /\ [][NextReq]_vars

(***************************************************************************)
(* Specification SpecSpeak: speakText calls made by independent async      *)
(* functions, and cancelSpeakText calls                                    *)
(***************************************************************************)
InitSpeak == ReqIdle /\ SpkIdle /\ QueIdle /\ TmoIdle /\ scr = ScreenInit

NextSpeak ==
    \/ \E c \in Callers : SpeakCall(c)
    \/ \E c \in Callers : SpeakCancelled(c)
    \/ \E c \in Callers : SpeakSettled(c)
    \/ \E c \in Callers : SpeakFetched(c)
    \/ \E c \in Callers : SpeakFetchTimeout(c)
    \/ \E c \in Callers : SpeakBody(c)
    \/ \E c \in Callers : SpeakWritten(c)
    \/ \E c \in Callers : SpeakInfo(c)
    \/ \E c \in Callers : SpeakCreated(c)
    \/ \E c \in Callers : SpeakStarted(c)
    \/ \E c \in Callers : SpeakFinished(c)
    \/ \E c \in Callers : SpeakTimeout(c)
    \/ CancelSpeakText

SpecSpeak == InitSpeak /\ [][NextSpeak]_vars

\* the steps of a speakText call that wait for the device alone: timers, the
\* file system, the audio player accepting a command
SpeakDevice(c) ==
    \/ SpeakCancelled(c) \/ SpeakSettled(c) \/ SpeakFetchTimeout(c)
    \/ SpeakBody(c) \/ SpeakWritten(c) \/ SpeakInfo(c) \/ SpeakCreated(c)
    \/ SpeakStarted(c) \/ SpeakTimeout(c)

\* SpecSpeakLive: a call is not left waiting for the device for ever.  The
\* answer of the synthesis backend (SpeakFetched) and the end of the playback
\* (SpeakFinished) are not required: they may never come.
SpecSpeakLive ==
    SpecSpeak /\ \A c \in Callers : WF_vars(SpeakDevice(c))

(***************************************************************************)
(* Specification SpecTimeout: the timeout of speakText for a text of any   *)
(* length up to MaxLen                                                     *)
(***************************************************************************)
InitTimeout ==
    /\ ReqIdle /\ SpkIdle /\ QueIdle /\ scr = ScreenInit
    /\ txtLen \in 0 .. MaxLen
    /\ budget = 0

SpecTimeout == InitTimeout /\ [][ComputeTimeout]_vars

(***************************************************************************)
(* Specification SpecQueue: jobs arrive at the two playback queues and     *)
(* settle.  SpecQueueLive adds that a job that was started settles.        *)
(***************************************************************************)
InitQueue == ReqIdle /\ SpkIdle /\ QueIdle /\ TmoIdle /\ scr = ScreenInit

NextQueue ==
    \/ \E q \in Queues : QueueAudio(q)
    \/ \E q \in Queues : \E j \in Jobs : JobSettled(q, j)

SpecQueue == InitQueue /\ [][NextQueue]_vars

SpecQueueLive ==
    SpecQueue /\ \A q \in Queues : \A j \in Jobs : WF_vars(JobSettled(q, j))

(***************************************************************************)
(* Specification SpecVoice: the Describe screen with a photo captured, the *)
(* long press, the recording, forceStopRecording and its two requests,     *)
(* and the focus changes                                                   *)
(***************************************************************************)
InitVoice == ReqIdle /\ SpkIdle /\ QueIdle /\ TmoIdle /\ scr = VoiceInit

NextVoice ==
    \/ VoiceLongPress \/ OnFinalize \/ VoicePermitted \/ VoiceListening
    \/ VoiceCreated \/ VoiceTick \/ VoiceTenSeconds
    \/ \E i \in Slots : VoiceStopped(i)
    \/ \E i \in Slots : VoiceSaid(i)
    \/ \E i \in Slots : VoiceCue(i)
    \/ \E i \in Slots : VoiceTranscribed(i)
    \/ \E i \in Slots : VoiceAnswered(i)
    \/ \E i \in Slots : VoiceSpoke(i)
    \/ \E i \in Slots : VoiceFin(i)
    \/ ReqFileInfo \/ ReqResponse \/ ReqWake
    \/ DesFocusChange \/ DesFocusStopped
    \/ ShowCamera

SpecVoice == InitVoice /\ [][NextVoice]_vars

(***************************************************************************)
(* Specification SpecDetect: the Detect screen, its photo pipeline, its    *)
(* focus changes and the detection request                                 *)
(***************************************************************************)
InitScreen == ReqIdle /\ SpkIdle /\ QueIdle /\ TmoIdle /\ scr = ScreenInit

NextDetect ==
    \/ DetTakePhoto \/ DetPhoto \/ DetSpoke1 \/ DetWaited300 \/ DetCueCreated
    \/ DetCueLooped \/ DetCuePlayed \/ DetResized \/ DetAfterRequest
    \/ DetStopped1 \/ DetWaited500 \/ DetSpoke2 \/ DetDeleted
    \/ DetStoppedE \/ DetSpokeE
    \/ ReqFileInfo \/ ReqResponse \/ ReqWake
    \/ DetFocusChange \/ DetFocusStopped
    \/ CapTimer \/ Cooldown \/ ShowCamera

SpecDetect == InitScreen /\ [][NextDetect]_vars

(***************************************************************************)
(* Specification SpecFacing: the Detect screen staying focused, its photo  *)
(* pipeline, the camera switch and the announcements it queues             *)
(***************************************************************************)
NextFacing ==
    \/ DetTakePhoto \/ DetPhoto \/ DetSpoke1 \/ DetWaited300 \/ DetCueCreated
    \/ DetCueLooped \/ DetCuePlayed \/ DetResized \/ DetAfterRequest
    \/ DetStopped1 \/ DetWaited500 \/ DetSpoke2 \/ DetDeleted
    \/ DetStoppedE \/ DetSpokeE
    \/ ReqFileInfo \/ ReqResponse \/ ReqWake
    \/ CapTimer \/ Cooldown \/ ShowCamera
    \/ DetSwipeDown \/ DetFacingTimer
    \/ \E j \in Jobs : JobSettled("ctx", j)

SpecFacing == InitScreen /\ [][NextFacing]_vars

(***************************************************************************)
(* Specification SpecDescribe: the Describe screen, its photo pipeline,    *)
(* its focus changes and the caption request                               *)
(***************************************************************************)
NextDescribe ==
    \/ DesTakePhoto \/ DesPhoto \/ DesSpoke1 \/ DesCueCreated \/ DesCueLooped
    \/ DesCuePlay \/ DesAfterRequest \/ DesStopped1 \/ DesSpoke2
    \/ DesStoppedE \/ DesSpokeE
    \/ ReqFileInfo \/ ReqResponse \/ ReqWake
    \/ DesFocusChange \/ DesFocusStopped
    \/ CapTimer \/ Cooldown \/ ShowCamera

SpecDescribe == InitScreen /\ [][NextDescribe]_vars

(***************************************************************************)
(* Specification SpecColor: the Color screen, its photo pipeline, its      *)
(* focus changes and the colour request                                    *)
(***************************************************************************)
NextColor ==
    \/ ColTakePhoto \/ ColPhoto \/ ColSpoke1 \/ ColCueCreated \/ ColCueLooped
    \/ ColCuePlayed \/ ColStoppedC \/ ColAfterRequest \/ ColStopped1
    \/ ColSpoke2 \/ ColStoppedE \/ ColSpokeE
    \/ ReqFileInfo \/ ReqResponse \/ ReqWake
    \/ ColFocusChange \/ ColFocusStopped
    \/ CapTimer \/ Cooldown \/ ShowCamera

SpecColor == InitScreen /\ [][NextColor]_vars

(***************************************************************************)
(* Specification SpecTutorial: the Describe screen staying focused, with a *)
(* photo captured: the voice question and the tutorial                     *)
(***************************************************************************)
NextTutorial ==
    \/ VoiceLongPress \/ OnFinalize \/ VoicePermitted \/ VoiceListening
    \/ VoiceCreated \/ VoiceTick \/ VoiceTenSeconds
    \/ \E i \in Slots : VoiceStopped(i)
    \/ \E i \in Slots : VoiceSaid(i)
    \/ \E i \in Slots : VoiceCue(i)
    \/ \E i \in Slots : VoiceTranscribed(i)
    \/ \E i \in Slots : VoiceAnswered(i)
    \/ \E i \in Slots : VoiceSpoke(i)
    \/ \E i \in Slots : VoiceFin(i)
    \/ ReqFileInfo \/ ReqResponse \/ ReqWake
    \/ SwipeUp \/ TutWaited \/ TutSpoke

SpecTutorial == InitVoice /\ [][NextTutorial]_vars

(***************************************************************************)
(* Specification SpecTabs: the tabs, the tutorial and the announcements of *)
(* the navigator's queue                                                   *)
(***************************************************************************)
InitTabs ==
    /\ ReqIdle /\ SpkIdle /\ QueIdle /\ TmoIdle
    /\ \E b \in BOOLEAN : scr = [ScreenInit EXCEPT !.initialMount = b]

NextTabs ==
    \/ \E r \in Tabs : TabPress(r)
    \/ \E dir \in {"left", "right"} : SwipeNav(dir)
    \/ NavState
    \/ SwipeUp \/ TutWaited \/ TutSpoke
    \/ \E j \in Jobs : JobSettled("tab", j)

SpecTabs == InitTabs /\ [][NextTabs]_vars

(***************************************************************************)
(* Specification SpecExit: one run of the tutorial on the Detect screen,   *)
(* its speakText calls and the exit gesture                                *)
(***************************************************************************)
NextExit ==
    \/ SwipeUp \/ TutWaited \/ TutExit
    \/ \E c \in Callers : TutSpeakText(c)
    \/ \E c \in Callers : TutClipSettled(c)
    \/ \E c \in Callers : SpeakCancelled(c)
    \/ \E c \in Callers : SpeakSettled(c)
    \/ \E c \in Callers : SpeakFetched(c)
    \/ \E c \in Callers : SpeakFetchTimeout(c)
    \/ \E c \in Callers : SpeakBody(c)
    \/ \E c \in Callers : SpeakWritten(c)
    \/ \E c \in Callers : SpeakInfo(c)
    \/ \E c \in Callers : SpeakCreated(c)
    \/ \E c \in Callers : SpeakStarted(c)
    \/ \E c \in Callers : SpeakFinished(c)
    \/ \E c \in Callers : SpeakTimeout(c)

SpecExit == InitScreen /\ [][NextExit]_vars

(***************************************************************************)
(* The speech synthesizer: claims C3, C4, C5 (SpecSpeak)                   *)
(***************************************************************************)
\* C3: in every reachable state at most one synthesized speech clip is
\* playing in the whole process, whoever called speakText.
C3_OneClipPlaying ==
    Cardinality({c \in Callers : spSound[c] = "playing"}) <= 1

\* C4: when speakText("B") is called while the clip of speakText("A") is
\* playing, A's clip has been stopped and unloaded by the time B's clip plays.
C4_EarlierClipStopped ==
    \A b \in Callers :
        spSound[b] = "playing" => \A a \in spDuring[b] : ~ClipLoaded(a)

\* C5: when cancelSpeakText returns, no clip of an earlier speakText call is
\* still loaded or playing.
C5_CancelStopsEveryClip ==
    [][cancels' = cancels + 1 =>
         \A c \in Callers : spSound'[c] \notin {"loaded", "playing"}]_vars

(***************************************************************************)
(* The request operations: claims C7, C8, C9, C10 (SpecReq)                *)
(***************************************************************************)
\* C7: a call made with an already aborted signal makes no network attempt
\* and ends at once with the cancelled outcome of its operation: the four image
\* operations throw 'Request aborted', the transcription returns "".
C7_AbortedBeforeCall ==
    rqPre =>
        /\ rqPc = "done"
        /\ rqNet = 0
        /\ rqAttempt = 0
        /\ rqOp \in ImageOps => rqOut = [kind |-> "throw", val |-> "Request aborted"]
        /\ rqOp = "transcribe" => rqOut = [kind |-> "return", val |-> ""]

C7_Witness ==
    rqPre /\ rqPc = "done" /\ rqOp = "vqa" /\ rqOut.kind = "throw"

\* C8: caption, detect, VQA and colour return the fallback string, and do not
\* throw, when all 6 attempts failed with an error that is no cancellation and
\* the signal was never aborted.
C8_ExhaustionReturnsFallback ==
    (rqPc = "done" /\ rqOp \in ImageOps /\ rqFails = 6 /\ ~ReqAborted) =>
        rqOut = [kind |-> "return",
                 val |-> "Error processing your request. Please try again."]

C8_Witness ==
    /\ rqPc = "done" /\ rqOp = "color" /\ rqFails = 6 /\ rqNet = 6
    /\ rqSignal # 0 /\ ~ReqAborted
    /\ rqOut.kind = "return"

\* C9: sendAudioForTranscription returns the empty string when all 6 attempts
\* failed with an error that is no cancellation.
C9_TranscriptionExhaustionEmpty ==
    (rqPc = "done" /\ rqOp = "transcribe" /\ rqFails = 6) =>
        rqOut = [kind |-> "return", val |-> ""]

C11_AtMostSixAttempts ==
    /\ rqNet <= MAX_RETRIES
    /\ (/\ rqPc = "done" /\ ~ReqAborted
        /\ (rqOp = "transcribe" \/ rqFile)
        /\ rqFails >= 1 /\ rqFails = rqAttempt) => rqNet = MAX_RETRIES

\* a transcription call whose six requests all failed
C11_Witness ==
    /\ rqPc = "done" /\ rqOp = "transcribe" /\ ~ReqAborted
    /\ rqFails = rqAttempt /\ rqNet = MAX_RETRIES

(***************************************************************************)
(* The capture pipelines: claims C1, C2 (SpecDetect), C6 (SpecDescribe)    *)
(***************************************************************************)
\* C1: once the session counter of a screen has been incremented, no pipeline
\* invocation that captured the earlier value puts a result text or an error
\* text on the screen.
C1_NoStaleWrite == ~scr.staleWrite

\* C2: once the session counter of a screen has been incremented, no pipeline
\* invocation that captured the earlier value calls speakText or starts the
\* processing cue.
C2_NoStaleAudio == ~scr.staleAudio

\* C6: an invocation of a capture pipeline that has ended, with its timers
\* fired and the session it started in still the current one, has left every
\* busy flag of the screen false.
C6_EndedPipelineNotBusy ==
    (scr.pPc = "done" /\ ~Stale(scr) /\ scr.capTimers = 0) => NotBusy(scr)

(***************************************************************************)
(* Results of the Detect pipeline: claim C20 (SpecDetect)                  *)
(***************************************************************************)
\* C20: when the detection request has answered with an empty label list (the
\* operation then returns the empty join) and the session is still current,
\* the Detect pipeline shows "No objects detected." and that is what it speaks.
C20_EmptyLabelsLiteral ==
    (/\ scr.pPc \in {"wait500", "speak2"} /\ ~Stale(scr)
     /\ rqOp = "detect" /\ rqOut = Return(Join(<<>>)))
    => /\ scr.shown = "No objects detected."
       /\ scr.pPc = "speak2" => scr.lastSaid = "No objects detected."

(***************************************************************************)
(* The playback queues: claims C13, C15 (SpecQueue), C14 (SpecQueueLive)   *)
(***************************************************************************)
\* C13: in each queue the jobs are started in the order of their arrival, at
\* most one job of the queue is running, and the one running is the one
\* started last: a job is started only after the one before it has settled.
C13_OneJobInOrder ==
    \A q \in Queues :
        /\ \A i \in DOMAIN qStarted[q] : qStarted[q][i] = i
        /\ Cardinality(qRunning[q]) <= 1
        /\ \A j \in qRunning[q] : j = qStarted[q][Len(qStarted[q])]

\* the second job is running, it arrived while the first was, and a third
\* job is waiting behind it
C13_Witness ==
    \E q \in Queues :
        qStarted[q] = <<1, 2>> /\ qRunning[q] = {2} /\ qItems[q] = <<3>>

\* C14: when every job that is started settles, every job handed to a queue
\* is eventually started, also behind a job that threw; and a queue with no
\* job waiting and none running has its playing flag false.
C14_EveryJobStarted ==
    /\ \A q \in Queues : \A j \in Jobs :
           (qCount[q] >= j) ~> (\E i \in DOMAIN qStarted[q] : qStarted[q][i] = j)
    /\ [](\A q \in Queues :
             (qItems[q] = <<>> /\ qRunning[q] = {}) => ~qPlaying[q])

\* the first job threw, and the jobs behind it have been started
C14_Witness ==
    \E q \in Queues :
        /\ 1 \in qThrew[q] /\ qStarted[q] = <<1, 2, 3>>
        /\ qItems[q] = <<>> /\ qRunning[q] = {} /\ ~qPlaying[q]

\* C15: in the whole application at most one queued job is running: the
\* jobs of the tab navigator and of the camera context never run at the
\* same time.
C15_OneJobAcrossQueues ==
    Cardinality({q \in Queues : qRunning[q] # {}}) <= 1

(***************************************************************************)
(* The capture guard: claim C17 (SpecDetect)                               *)
(***************************************************************************)
\* C17: an invocation passes the capture guard of a screen only when at least
\* CAPTURE_COOLDOWN has passed since the last invocation that passed it.
C17_GuardPassesApart ==
    [][(scr'.pPc = "photo" /\ scr.pPc # "photo") => ~scr.recent]_vars

(***************************************************************************)
(* One invocation at a time: claim C16 (SpecDescribe)                      *)
(***************************************************************************)
\* C16: while an invocation of the photo pipeline of a screen is between
\* passing its start guard and finishing, the start guard is closed: a
\* double tap arriving then starts nothing.
C16_GuardClosedWhileActive ==
    scr.pPc \notin {"idle", "done"} => ~DesGuard(scr)

(***************************************************************************)
(* The voice question: claims C12, C18, C19 (SpecVoice)                    *)
(***************************************************************************)
\* C12: when a backend request of a pipeline has ended because its signal was
\* aborted, the pipeline shows no error text and no result text for it.
C12_NothingShownAfterCancel == ~scr.shownAfterCancel

\* C18: a recording is stopped by the time RECORDING_TIMEOUT has passed since
\* it started: once that time has passed, the countdown and the timeout have
\* fired, the gesture has ended and no handler is still at work, the
\* recording is not running any more.
C18_RecordingStoppedInTime ==
    (/\ scr.tenPassed /\ ~scr.intervalOn /\ ~scr.tenTimer
     /\ scr.gesture = "none"
     /\ scr.hPc \in {"idle", "done"}
     /\ \A i \in Slots : scr.vPc[i] \in {"idle", "done"})
    => scr.recState # "on"

\* C19: a recording is stopped once and transcribed once: no second
\* stopAndUnloadAsync call and no second transcription request is made for it.
C19_StoppedOnce == scr.recStops <= 1 /\ scr.transcribes <= 1

(***************************************************************************)
(* The caption scenario: claim C21 (SpecDescribe)                          *)
(***************************************************************************)
\* C21: when the caption request returned a non-empty caption at its first
\* attempt and the session is still the one the invocation started in, the
\* invocation that has ended, its timers fired, has left that caption on the
\* screen, has spoken it last, and has left no busy flag set.
C21_CaptionShownSpokenIdle ==
    (/\ scr.pPc = "done" /\ ~Stale(scr) /\ scr.capTimers = 0
     /\ rqOp = "caption" /\ rqAttempt = 1
     /\ rqOut.kind = "return" /\ Truthy(rqOut.val)
     /\ scr.pResp = rqOut.val)
    => /\ scr.shown = rqOut.val
       /\ scr.lastSaid = rqOut.val
       /\ NotBusy(scr)

(***************************************************************************)
(* Temp files: claim C22 (SpecDetect)                                      *)
(***************************************************************************)
\* C22: once the screen has lost the focus, its handleFocusChange has
\* finished and no invocation of the pipeline is in progress, no temp file
\* of the screen exists.
C22_NoTempFileLeft ==
    (~scr.focused /\ scr.fPc = "idle" /\ scr.pPc \in {"idle", "done"})
    => scr.files = {}

(***************************************************************************)
(* Speech failures in a pipeline: claim C23 (SpecDetect)                   *)
(***************************************************************************)
\* C23: in the step in which a speakText call made by the try block of the
\* pipeline settles, the session still being current, the pipeline does not
\* enter its catch block and the text on the screen is not replaced: a
\* speech failure alone never puts "Please Try Again" on the screen.
C23_SpeechFailureNotFatal ==
    [][(/\ scr.pPc \in {"speak1", "speak2"}
        /\ scr'.pPc # scr.pPc
        /\ ~Stale(scr))
       => (/\ scr'.shown = scr.shown
           /\ scr'.pPc \notin {"stopE", "speakE"})]_vars

C25_MissingFileInvalidInput ==
    (rqPc = "done" /\ ~rqFile /\ ~ReqAborted)
    => /\ rqNet = 0
       /\ rqOut = Throw(FileMissing.message)

(***************************************************************************)
(* Tokens and cues of the Detect pipeline: claims C26, C27 (SpecDetect)    *)
(***************************************************************************)
\* C26: the request of an invocation carries the signal of the controller
\* that was current when the invocation took its session value.  (The
\* controllers are numbered by the session in which they were made.)
C26_RequestCarriesOwnToken ==
    scr.pPc = "request" => rqSignal = scr.pSession

\* C27: when an invocation of the pipeline has ended, on whatever path, the
\* looping processing cue is not playing.
C27_CueStoppedAtEnd ==
    scr.pPc = "done" => scr.cue # "playing"

(***************************************************************************)
(* Cancellation on focus loss: claim C28 (SpecDetect)                      *)
(***************************************************************************)
\* C28: a request that was in flight when the screen lost the focus, and is
\* still in flight when handleFocusChange has finished, has its signal
\* aborted.  (Nothing aborts the signal of that request later: the handler
\* has run to its end, and the next one aborts the controller of its time.)
C28_InFlightAborted ==
    (scr.atBlur /\ scr.fPc = "idle" /\ rqPc \in InFlight) => ReqAborted

(***************************************************************************)
(* The camera switch: claim C29 (SpecFacing)                               *)
(***************************************************************************)
\* C29: a camera switch (the swipe that is accepted, and the change of
\* facing that follows it) made while an invocation of the pipeline is in
\* progress leaves the controller of the current session aborted.
C29_FacingSwitchCancels ==
    [][(/\ scr.pPc \notin {"idle", "done"}
        /\ \/ scr'.facing # scr.facing
           \/ (scr'.facingTimer /\ ~scr.facingTimer))
       => scr.abortRef \in abortedCtl']_vars

C31_DelayBetweenAttempts ==
    [][(/\ rqAttempt >= 1
        /\ rqAttempt' = rqAttempt + 1
        /\ rqPc' \in {"info", "post"})
       => rqPc = "sleep"]_vars

(***************************************************************************)
(* Cleanup of speakText: claim C32 (SpecSpeak)                             *)
(***************************************************************************)
\* C32: when a speakText call has ended, resolved or rejected, speech.mp3 as
\* this call wrote it does not exist any more and the sound this call loaded
\* is not loaded any more.
C32_SpeakTextCleansUp ==
    \A c \in Callers :
        spPc[c] = "done" => (scratch # c /\ ~ClipLoaded(c))

C34_AbortOnlyWithNewSession ==
    (scr.pPc \notin {"idle", "done"} /\ ~Stale(scr))
        => scr.pSession \notin abortedCtl

(***************************************************************************)
(* The voice question: claim C35 (SpecVoice)                               *)
(***************************************************************************)
\* C35: every VQA request of the voice question carries as its question a
\* non-empty text that the transcription backend returned for the
\* recording, never the fallback message: in every step in which
\* forceStopRecording goes from the transcription to the VQA request, the
\* question it sends is such a text.
C35_QuestionIsTranscript ==
    [][\A i \in Slots :
          (scr.vPc[i] = "transcribe" /\ scr'.vPc[i] = "vqa")
              => /\ scr'.recognizedQuestion # FALLBACK_MESSAGE
                 /\ RespText(scr'.recognizedQuestion) \in Answers("transcribe")
                 /\ scr'.recognizedQuestion # ""]_vars

(***************************************************************************)
(* The speech scratch file: claim C36 (SpecSpeak)                          *)
(***************************************************************************)
\* C36: the scratch file written by one speakText call is not overwritten
\* or deleted by another call between the first call's write and the end of
\* its playback: while a call that wrote the file is on its way from the
\* write to the end of its playback, the file stays as that call wrote it
\* in every step but the one in which that call's own playback ends.
C36_ScratchFileNotShared ==
    [][\A a \in Callers :
          (scratch = a /\ spPc[a] \in {"info", "create", "start", "playing"})
              => (scratch' = a \/ (spResolved'[a] /\ ~spResolved[a]))]_vars

(***************************************************************************)
(* The tutorial: claims C37 (SpecTutorial), C38 (SpecTabs), C39 (SpecExit) *)
(***************************************************************************)
\* C37: the tutorial is never active while a capture pipeline or the voice
\* question, from the start of the long press to the end of
\* forceStopRecording, is in progress on the focused screen.
C37_TutorialNotDuringFlow ==
    (scr.tutorial /\ scr.focused)
        => /\ scr.pPc \in {"idle", "done"}
           /\ scr.hPc \in {"idle", "done"}
           /\ ~scr.recording
           /\ \A i \in Slots : scr.vPc[i] \in {"idle", "done"}

\* C38: while the tutorial is active the focused tab does not change and no
\* announcement of a mode is queued: a step taken with the tutorial active
\* leaves the tab and the number of jobs of the navigator's queue as they
\* are, tab presses and swipes left and right included.
C38_TabFixedInTutorial ==
    [][scr.tutorial => (scr'.tab = scr.tab /\ qCount'["tab"] = qCount["tab"])]_vars

\* a tab press or a swipe was made while the tutorial was active, after the
\* user had changed the tab before
C38_Witness ==
    scr.tutorial /\ scr.ignored /\ scr.tab # "Detect" /\ qCount["tab"] > 0

\* C39: while the tutorial is active a swipe up, the exit gesture, stops the
\* clip of the tutorial that is playing: after the step of the gesture no
\* clip is playing.
C39_ExitStopsClip ==
    [][(scr.tutorial /\ cancels' = cancels + 1)
          => \A c \in Callers : spSound'[c] # "playing"]_vars

====
